---- MODULE Spec2Model ----
(***************************************************************************)
(* Model of the salary normaliser of the JobSearch repository:            *)
(* Clean.parse_salary and Clean.convert_number, in both copies of the     *)
(* code (src/JobSearch.py and src/jobsearch/JobSearch.py).                *)
(*                                                                         *)
(* A Python str is a sequence of one-character strings.  A Python float   *)
(* is an exact decimal [tag |-> "float", w |-> whole, f |-> fraction] of  *)
(* value w + f / Scale; the texts of the model only hold numbers whose    *)
(* decimal value a binary double holds exactly wherever a rounding tie    *)
(* can occur, so that round(x, 2) is round-half-even on the decimal.      *)
(***************************************************************************)
EXTENDS Integers, Sequences, FiniteSets, TLC

\* number of decimal places a model float keeps
FracDigits == 4

\* most period phrases that follow the number part of a text
MaxCues == 2

RECURSIVE Pow10(_)
Pow10(n) == IF n = 0 THEN 1 ELSE 10 * Pow10(n - 1)

Scale == Pow10(FracDigits)

----------------------------------------------------------------------------
(* Python values *)

None == [tag |-> "None"]

Str(chars) == [tag |-> "str", chars |-> chars]

Float(w, f) == [tag |-> "float", w |-> w, f |-> f]

\* one of the str values "hour", "day", "week", "month", "year"
Period(name) == [tag |-> "str", name |-> name]

\* float("nan"), what pandas hands over for an empty salary cell
NaN == [tag |-> "float", w |-> 0, f |-> 0, nan |-> TRUE]

----------------------------------------------------------------------------
(* str methods and the pieces of the re module the code uses *)

DigitChars == <<"0", "1", "2", "3", "4", "5", "6", "7", "8", "9">>

UpperChars == <<"A", "B", "C", "D", "E", "F", "G", "H", "I", "J", "K", "L", "M",
                "N", "O", "P", "Q", "R", "S", "T", "U", "V", "W", "X", "Y", "Z">>

LowerChars == <<"a", "b", "c", "d", "e", "f", "g", "h", "i", "j", "k", "l", "m",
                "n", "o", "p", "q", "r", "s", "t", "u", "v", "w", "x", "y", "z">>

Range(seq) == {seq[i] : i \in 1..Len(seq)}

\* \d
IsDigit(c) == c \in Range(DigitChars)

\* \s
IsSpace(c) == c \in {" ", "\t", "\n", "\r"}

\* \w, the characters between which \b finds no boundary
IsWordChar(c) == c \in Range(DigitChars) \cup Range(UpperChars) \cup Range(LowerChars) \cup {"_"}

DigitVal(c) == (CHOOSE i \in 1..10 : DigitChars[i] = c) - 1

lower_char(c) ==
    IF c \in Range(UpperChars)
    THEN LowerChars[CHOOSE i \in 1..26 : UpperChars[i] = c]
    ELSE c

\* str.lower()
lower(s) == [i \in 1..Len(s) |-> lower_char(s[i])]

RECURSIVE lstrip(_)
lstrip(s) == IF s # <<>> /\ IsSpace(s[1]) THEN lstrip(Tail(s)) ELSE s

RECURSIVE rstrip(_)
rstrip(s) ==
    IF s # <<>> /\ IsSpace(s[Len(s)]) THEN rstrip(SubSeq(s, 1, Len(s) - 1)) ELSE s

\* str.strip()
strip(s) == rstrip(lstrip(s))

\* s[i:].startswith(pat), i counted from 1
StartsWithAt(s, i, pat) ==
    /\ i + Len(pat) - 1 <= Len(s)
    /\ \A j \in 1..Len(pat) : s[i + j - 1] = pat[j]

\* pat in s
Contains(s, pat) == \E i \in 1..Len(s) : StartsWithAt(s, i, pat)

\* str.endswith()
endswith(s, pat) == Len(pat) <= Len(s) /\ StartsWithAt(s, Len(s) - Len(pat) + 1, pat)

\* str.replace(old, new): every non-overlapping occurrence, left to right
RECURSIVE replace(_, _, _)
replace(s, old, new) ==
    IF s = <<>> THEN <<>>
    ELSE IF StartsWithAt(s, 1, old)
         THEN new \o replace(SubSeq(s, Len(old) + 1, Len(s)), old, new)
         ELSE <<s[1]>> \o replace(Tail(s), old, new)

\* \b before position p of s (p = Len(s) + 1 is the end of the text)
WordBoundary(s, p) ==
    LET before == p > 1 /\ p - 1 <= Len(s) /\ IsWordChar(s[p - 1])
        after == p >= 1 /\ p <= Len(s) /\ IsWordChar(s[p])
    IN before # after

\* re.search(r"\bpat\b", s)
ContainsWord(s, pat) ==
    \E i \in 1..Len(s) :
        StartsWithAt(s, i, pat) /\ WordBoundary(s, i) /\ WordBoundary(s, i + Len(pat))

\* re.search(r"pat\b", s)
ContainsBefore(s, pat) ==
    \E i \in 1..Len(s) : StartsWithAt(s, i, pat) /\ WordBoundary(s, i + Len(pat))

\* the end of the shortest match of \(.*?\) that starts at s[1], 0 when there
\* is none: the first ")" with no line break before it
ParenEnd(s) ==
    IF s = <<>> \/ s[1] # "(" THEN 0
    ELSE LET closes == {j \in 2..Len(s) :
                           s[j] = ")" /\ \A m \in 2..(j - 1) : s[m] # "\n"}
         IN IF closes = {} THEN 0
            ELSE CHOOSE j \in closes : \A m \in closes : j <= m

\* re.sub(r"\(.*?\)", "", s)
RECURSIVE re_sub_parens(_)
re_sub_parens(s) ==
    IF s = <<>> THEN <<>>
    ELSE IF ParenEnd(s) > 0
         THEN re_sub_parens(SubSeq(s, ParenEnd(s) + 1, Len(s)))
         ELSE <<s[1]>> \o re_sub_parens(Tail(s))

----------------------------------------------------------------------------
(* the two number patterns of parse_salary *)

\* the length of the longest match of [\d\.]* at position i
RECURSIVE NumRunLen(_, _)
NumRunLen(s, i) ==
    IF i <= Len(s) /\ (IsDigit(s[i]) \/ s[i] = ".")
    THEN 1 + NumRunLen(s, i + 1)
    ELSE 0

\* the position after the match of [\d\.]+k? (re.IGNORECASE) that starts at
\* i; both parts are greedy and what follows them in either pattern never
\* matches a character they could give back
TokenEnd(s, i) ==
    LET e == i + NumRunLen(s, i)
    IN IF e <= Len(s) /\ lower_char(s[e]) = "k" THEN e + 1 ELSE e

\* the position after the match of \s* at position p
RECURSIVE SkipSpaces(_, _)
SkipSpaces(s, p) == IF p <= Len(s) /\ IsSpace(s[p]) THEN SkipSpaces(s, p + 1) ELSE p

\* [u2013-]; the en dash U+2013 is the one character written "u2013"
IsDash(c) == c \in {"-", "u2013"}

\* ([\d\.]+k?)\s*[\u2013-]\s*([\d\.]+k?) matches at position i
RangeAt(s, i) ==
    /\ NumRunLen(s, i) >= 1
    /\ LET p == SkipSpaces(s, TokenEnd(s, i))
       IN /\ p <= Len(s)
          /\ IsDash(s[p])
          /\ NumRunLen(s, SkipSpaces(s, p + 1)) >= 1

\* where the second group of the match at i starts, and the position after it
RangeSecond(s, i) == SkipSpaces(s, SkipSpaces(s, TokenEnd(s, i)) + 1)

RangeEnd(s, i) == TokenEnd(s, RangeSecond(s, i))

\* the matches of the range pattern, rightmost match first
RECURSIVE findall_range_reversed(_, _)
findall_range_reversed(s, start) ==
    LET at == {i \in start..Len(s) : RangeAt(s, i)}
    IN IF at = {} THEN <<>>
       ELSE LET i == CHOOSE m \in at : \A n \in at : m <= n
            IN findall_range_reversed(s, RangeEnd(s, i))
               \o << <<SubSeq(s, i, TokenEnd(s, i) - 1),
                       SubSeq(s, RangeSecond(s, i), RangeEnd(s, i) - 1)>> >>

\* re.findall(r"([\d\.]+k?)\s*[\u2013-]\s*([\d\.]+k?)", s, flags=re.IGNORECASE)
\* from position start on: the pairs of groups, leftmost match first
RECURSIVE findall_range(_, _)
findall_range(s, start) ==
    LET at == {i \in start..Len(s) : RangeAt(s, i)}
    IN IF at = {} THEN <<>>
       ELSE LET i == CHOOSE m \in at : \A n \in at : m <= n
            IN << <<SubSeq(s, i, TokenEnd(s, i) - 1),
                    SubSeq(s, RangeSecond(s, i), RangeEnd(s, i) - 1)>> >>
               \o findall_range(s, RangeEnd(s, i))

\* the matches of the number pattern, rightmost match first
RECURSIVE findall_single_reversed(_, _)
findall_single_reversed(s, start) ==
    LET at == {i \in start..Len(s) : NumRunLen(s, i) >= 1}
    IN IF at = {} THEN <<>>
       ELSE LET i == CHOOSE m \in at : \A n \in at : m <= n
            IN findall_single_reversed(s, TokenEnd(s, i)) \o <<SubSeq(s, i, TokenEnd(s, i) - 1)>>

\* re.findall(r"([\d\.]+k?)", s, flags=re.IGNORECASE) from position start on
RECURSIVE findall_single(_, _)
findall_single(s, start) ==
    LET at == {i \in start..Len(s) : NumRunLen(s, i) >= 1}
    IN IF at = {} THEN <<>>
       ELSE LET i == CHOOSE m \in at : \A n \in at : m <= n
            IN <<SubSeq(s, i, TokenEnd(s, i) - 1)>> \o findall_single(s, TokenEnd(s, i))

----------------------------------------------------------------------------
(* float arithmetic *)

ValueError == [tag |-> "ValueError"]

Norm(w, f) == Float(w + (f \div Scale), f % Scale)

\* a + b
Add(a, b) == Norm(a.w + b.w, a.f + b.f)

\* a * n for an int n
Mul(a, n) == Norm(a.w * n, a.f * n)

\* a / 2
Div2(a) == Float(a.w \div 2, ((a.w % 2) * Scale + a.f) \div 2)

\* round(a, 2): to the nearest hundredth, a tie to the even one
Round2(a) ==
    LET unit == Scale \div 100
        r == a.f % unit
        down == a.f - r
        up == 2 * r > unit \/ (2 * r = unit /\ (down \div unit) % 2 = 1)
    IN Norm(a.w, IF up THEN down + unit ELSE down)

RECURSIVE IntOf(_)
IntOf(ds) == IF ds = <<>> THEN 0 ELSE 10 * IntOf(SubSeq(ds, 1, Len(ds) - 1)) + DigitVal(ds[Len(ds)])

RECURSIVE FracOf(_, _)
FracOf(ds, j) ==
    IF j > Len(ds) \/ j > FracDigits THEN 0
    ELSE DigitVal(ds[j]) * Pow10(FracDigits - j) + FracOf(ds, j + 1)

\* float(t) for a text t: digits with at most one "." among them and at
\* least one digit, anything else raises ValueError
float(t) ==
    LET dots == {i \in 1..Len(t) : t[i] = "."}
        digits == {i \in 1..Len(t) : IsDigit(t[i])}
    IN IF dots \cup digits # 1..Len(t) \/ Cardinality(dots) > 1 \/ digits = {}
       THEN ValueError
       ELSE LET d == IF dots = {} THEN Len(t) + 1 ELSE CHOOSE i \in dots : TRUE
            IN Float(IntOf(SubSeq(t, 1, d - 1)), FracOf(SubSeq(t, d + 1, Len(t)), 1))

\* convert_number without .lower(): only a small k is the suffix
convert_number_case_sensitive(value) ==
    LET v == strip(value)
    IN IF endswith(v, <<"k">>)
       THEN LET x == float(SubSeq(v, 1, Len(v) - 1))
            IN IF x = ValueError THEN ValueError ELSE Mul(x, 1000)
       ELSE float(v)

convert_number(value) ==
    LET v == lower(strip(value))
    IN IF endswith(v, <<"k">>)
       THEN LET x == float(SubSeq(v, 1, Len(v) - 1))
            IN IF x = ValueError THEN ValueError ELSE Mul(x, 1000)
       ELSE float(v)

----------------------------------------------------------------------------
(* period detection: the if/elif chain over the lower-cased original text *)

\* re.search(r"hour|/hr|/h|\bhr\b", text)
search_hour(text) ==
    \/ Contains(text, <<"h", "o", "u", "r">>)
    \/ Contains(text, <<"/", "h", "r">>)
    \/ Contains(text, <<"/", "h">>)
    \/ ContainsWord(text, <<"h", "r">>)

\* re.search(r"day|/day", text)
search_day(text) ==
    \/ Contains(text, <<"d", "a", "y">>)
    \/ Contains(text, <<"/", "d", "a", "y">>)

\* re.search(r"\bweek\b|/week|/wk\b", text)
search_week(text) ==
    \/ ContainsWord(text, <<"w", "e", "e", "k">>)
    \/ Contains(text, <<"/", "w", "e", "e", "k">>)
    \/ ContainsBefore(text, <<"/", "w", "k">>)

\* "month" in text
search_month(text) == Contains(text, <<"m", "o", "n", "t", "h">>)

\* re.search(r"yr|/yr|per year", text)
search_year(text) ==
    \/ Contains(text, <<"y", "r">>)
    \/ Contains(text, <<"/", "y", "r">>)
    \/ Contains(text, <<"p", "e", "r", " ", "y", "e", "a", "r">>)

\* the day test of src/jobsearch that week also passes
pkg_search_day_or_week(text) ==
    \/ ContainsWord(text, <<"d", "a", "y">>)
    \/ Contains(text, <<"/", "d", "a", "y">>)
    \/ ContainsBefore(text, <<"d", "a", "i", "l", "y">>)
    \/ ContainsWord(text, <<"w", "e", "e", "k">>)

\* src/jobsearch: re.search(r"\bday\b|/day|daily\b", text)
pkg_search_day(text) ==
    \/ ContainsWord(text, <<"d", "a", "y">>)
    \/ Contains(text, <<"/", "d", "a", "y">>)
    \/ ContainsBefore(text, <<"d", "a", "i", "l", "y">>)

\* src/jobsearch: re.search(r"\byr\b|/yr|per year|a year|\bannually\b|\bannual\b", text)
pkg_search_year(text) ==
    \/ ContainsWord(text, <<"y", "r">>)
    \/ Contains(text, <<"/", "y", "r">>)
    \/ Contains(text, <<"p", "e", "r", " ", "y", "e", "a", "r">>)
    \/ Contains(text, <<"a", " ", "y", "e", "a", "r">>)
    \/ ContainsWord(text, <<"a", "n", "n", "u", "a", "l", "l", "y">>)
    \/ ContainsWord(text, <<"a", "n", "n", "u", "a", "l">>)

\* the chain with the month test ahead of the week test
detect_period_month_first(text) ==
    IF search_hour(text) THEN "hour"
    ELSE IF search_day(text) THEN "day"
    ELSE IF search_month(text) THEN "month"
    ELSE IF search_week(text) THEN "week"
    ELSE IF search_year(text) THEN "year"
    ELSE "year"

detect_period(text) ==
    IF search_hour(text) THEN "hour"
    ELSE IF search_day(text) THEN "day"
    ELSE IF search_week(text) THEN "week"
    ELSE IF search_month(text) THEN "month"
    ELSE IF search_year(text) THEN "year"
    ELSE "year"

pkg_detect_period(text) ==
    IF search_hour(text) THEN "hour"
    ELSE IF pkg_search_day(text) THEN "day"
    ELSE IF search_week(text) THEN "week"
    ELSE IF search_month(text) THEN "month"
    ELSE IF pkg_search_year(text) THEN "year"
    ELSE "year"

----------------------------------------------------------------------------
(* parse_salary *)

Fields == {"min_raw", "max_raw", "avg_value", "min_annualized", "max_annualized",
           "annualized_avg", "period"}

\* {k: None for k in [...]}
AllNone == [k \in Fields |-> None]

\* a call either returns a dict or raises; steps lists the blocks of the
\* function body that ran, in order
Return(value, steps) == [kind |-> "return", value |-> value, steps |-> steps]

Raise(exc, steps) == [kind |-> "raise", exc |-> exc, steps |-> steps]

\* the cleaning without .replace("US$", "")
clean_keeps_us(original) ==
    strip(replace(replace(re_sub_parens(original), <<",">>, <<>>), <<"$">>, <<>>))

\* s.replace(",", "").replace("US$", "").replace("$", "").strip() of the
\* text without its parenthesised parts
clean(original) ==
    strip(replace(replace(replace(re_sub_parens(original), <<",">>, <<>>), <<"U", "S", "$">>, <<>>),
                  <<"$">>, <<>>))

\* the chain with a year of 50 weeks for an hourly value
annualize_50_weeks(x, period) ==
    IF period = "hour" THEN Mul(Mul(x, 40), 50)
    ELSE IF period = "day" THEN Mul(x, 260)
    ELSE IF period = "week" THEN Mul(x, 52)
    ELSE IF period = "month" THEN Mul(x, 12)
    ELSE x

\* the if/elif chain that converts a value to a yearly one
annualize(x, period) ==
    IF period = "hour" THEN Mul(Mul(x, 40), 52)
    ELSE IF period = "day" THEN Mul(x, 260)
    ELSE IF period = "week" THEN Mul(x, 52)
    ELSE IF period = "month" THEN Mul(x, 12)
    ELSE x

\* the final return without a value for annualized_avg
populated_without_annualized_avg(low, high, period, steps) ==
    LET avg == Div2(Add(low, high))
    IN Return([min_raw |-> low,
               max_raw |-> high,
               avg_value |-> Round2(avg),
               min_annualized |-> Round2(annualize(low, period)),
               max_annualized |-> Round2(annualize(high, period)),
               annualized_avg |-> None,
               period |-> Period(period)],
              steps \o <<"average", "annualize">>)

\* the final return with min_raw and max_raw rounded like the other fields
populated_rounds_raw(low, high, period, steps) ==
    LET avg == Div2(Add(low, high))
    IN Return([min_raw |-> Round2(low),
               max_raw |-> Round2(high),
               avg_value |-> Round2(avg),
               min_annualized |-> Round2(annualize(low, period)),
               max_annualized |-> Round2(annualize(high, period)),
               annualized_avg |-> Round2(annualize(avg, period)),
               period |-> Period(period)],
              steps \o <<"average", "annualize">>)

\* the final return with avg = low + high / 2
populated_precedence(low, high, period, steps) ==
    LET avg == Add(low, Div2(high))
    IN Return([min_raw |-> low,
               max_raw |-> high,
               avg_value |-> Round2(avg),
               min_annualized |-> Round2(annualize(low, period)),
               max_annualized |-> Round2(annualize(high, period)),
               annualized_avg |-> Round2(annualize(avg, period)),
               period |-> Period(period)],
              steps \o <<"average", "annualize">>)

\* from "Compute averages" to the final return
populated(low, high, period, steps) ==
    LET avg == Div2(Add(low, high))
    IN Return([min_raw |-> low,
               max_raw |-> high,
               avg_value |-> Round2(avg),
               min_annualized |-> Round2(annualize(low, period)),
               max_annualized |-> Round2(annualize(high, period)),
               annualized_avg |-> Round2(annualize(avg, period)),
               period |-> Period(period)],
              steps \o <<"average", "annualize">>)

\* the guard compared with the empty text without stripping it
is_missing_unstripped(s) == s.tag # "str" \/ s.chars = <<>>

\* not isinstance(s, str) or s.strip() == ""
is_missing(s) == s.tag # "str" \/ strip(s.chars) = <<>>

\* the return for a text without a number, with the detected period kept
no_match_keeps_period(period, steps) ==
    Return([AllNone EXCEPT !.period = Period(period)], steps)

\* the return of the all-None dict when not single_match
no_match(period, steps) == Return(AllNone, steps)

\* the period read from the cleaned text
period_text_cleaned(original, cleaned) == lower(cleaned)

\* text = original.lower(): what the period is detected in
period_text(original, cleaned) == lower(original)

\* the body of parse_salary; copy ("root" or "pkg") is the copy of the code,
\* the two differ in the period detection alone
parse_salary_body(s, copy) ==
    IF is_missing(s)
    THEN Return(AllNone, <<"guard">>)
    ELSE LET original == s.chars
             cleaned == clean(original)
             text == period_text(original, cleaned)
             period == IF copy = "root" THEN detect_period(text)
                       ELSE pkg_detect_period(text)
             range_match == findall_range(cleaned, 1)
             single_match == findall_single(cleaned, 1)
         IN IF range_match # <<>>
            THEN LET low == convert_number(range_match[1][1])
                     high == convert_number(range_match[1][2])
                     steps == <<"guard", "clean", "period", "range", "convert">>
                 IN IF low = ValueError \/ high = ValueError
                    THEN Raise("ValueError", steps)
                    ELSE populated(low, high, period, steps)
            ELSE IF single_match = <<>>
                 THEN no_match(period, <<"guard", "clean", "period", "range", "single">>)
                 ELSE LET low == convert_number(single_match[1])
                          steps == <<"guard", "clean", "period", "range", "single",
                                     "convert">>
                      IN IF low = ValueError
                         THEN Raise("ValueError", steps)
                         ELSE populated(low, low, period, steps)

\* Clean.parse_salary of src/JobSearch.py
parse_salary(s) == parse_salary_body(s, "root")

\* Clean.parse_salary of src/jobsearch/JobSearch.py
pkg_parse_salary(s) == parse_salary_body(s, "pkg")

----------------------------------------------------------------------------
(* the salary texts the calls are made with *)

\* the float w + th / 1000
Dec(w, th) == Float(w, th * Pow10(FracDigits - 3))

\* a number as a salary text writes it, with the value it stands for
Num(txt, val) == [txt |-> txt, val |-> val]

NoNum == Num(<<>>, None)

Numbers ==
    { Num(<<"3", "0", ".", "0", "0">>, Dec(30, 0)),
      Num(<<"3", "7", ".", "5", "0">>, Dec(37, 500)),
      Num(<<"3", "7", ".", "1", "2", "5">>, Dec(37, 125)),
      Num(<<"6", ",", "2", "1", "1">>, Dec(6211, 0)),
      Num(<<"1", "5", ",", "2", "1", "1">>, Dec(15211, 0)),
      Num(<<"1", "5", "6", "0", "0", "0">>, Dec(156000, 0)),
      Num(<<"1", "3", "2", "K">>, Dec(132000, 0)),
      Num(<<"1", "8", "0", "K">>, Dec(180000, 0)),
      Num(<<"9", "0", "K">>, Dec(90000, 0)),
      Num(<<"4", "5", "k">>, Dec(45000, 0)),
      Num(<<"4", "5", "K">>, Dec(45000, 0)),
      Num(<<"1", ".", "5", "k">>, Dec(1500, 0)) }

\* runs of digits and dots that are no decimal number
Malformed == { Num(<<"1", ".", "2", ".", "3">>, ValueError), Num(<<".">>, ValueError) }

SecondNumbers ==
    { Num(<<"3", "7", ".", "5", "0">>, Dec(37, 500)),
      Num(<<"1", "5", ",", "2", "1", "1">>, Dec(15211, 0)),
      Num(<<"1", "8", "0", "K">>, Dec(180000, 0)),
      Num(<<"1", "6", "0", "k">>, Dec(160000, 0)),
      Num(<<"1", ".", "2", ".", "3">>, ValueError) }

\* what precedes the first amount; val is the number it holds, if any
Leads == { Num(<<>>, None), Num(<<"U", "p", " ", "t", "o", " ">>, None), Num(<<"2", " ", "r", "o", "l", "e", "s", " ">>, Dec(2, 0)) }

Currencies == { <<>>, <<"$">>, <<"U", "S", "$">> }

Dashes == { <<"-">>, <<"u2013">>, <<" ", "-", " ">> }

Separators == Dashes \cup { <<" ", "t", "o", " ">> }

\* a phrase after the amounts: root and pkg are the period it is a cue of in
\* src/JobSearch.py and in src/jobsearch/JobSearch.py ("none": of no period),
\* range the pair of numbers of the range it holds, if any
Phrase(txt, root, pkg) == [txt |-> txt, root |-> root, pkg |-> pkg, range |-> <<>>]

Cues ==
    { Phrase(<<" ", "a", "n", " ", "h", "o", "u", "r">>, "hour", "hour"),
      Phrase(<<"/", "h", "r">>, "hour", "hour"),
      Phrase(<<" ", "h", "r">>, "hour", "hour"),
      Phrase(<<" ", "h", "r", "s">>, "none", "none"),
      Phrase(<<" ", "a", " ", "d", "a", "y">>, "day", "day"),
      Phrase(<<" ", "d", "a", "i", "l", "y">>, "none", "day"),
      Phrase(<<" ", "t", "o", "d", "a", "y">>, "day", "none"),
      Phrase(<<" ", "a", " ", "w", "e", "e", "k">>, "week", "week"),
      Phrase(<<"/", "w", "k">>, "week", "week"),
      Phrase(<<" ", "w", "e", "e", "k", "s">>, "none", "none"),
      Phrase(<<" ", "a", " ", "m", "o", "n", "t", "h">>, "month", "month"),
      Phrase(<<" ", "a", " ", "y", "e", "a", "r">>, "none", "year"),
      Phrase(<<" ", "p", "e", "r", " ", "y", "e", "a", "r">>, "year", "year"),
      Phrase(<<"/", "y", "r">>, "year", "year") }

LaterRange ==
    [txt |-> <<" ", "o", "r", " ", "5", "0", "-", "6", "0">>, root |-> "none", pkg |-> "none",
     range |-> <<Dec(50, 0), Dec(60, 0)>>]

Tails ==
    { <<>>, <<LaterRange>> }
    \cup { <<c>> : c \in {q \in Cues : q.txt \in { <<" ", "a", "n", " ", "h", "o", "u", "r">>, <<" ", "a", " ", "m", "o", "n", "t", "h">>, <<" ", "a", " ", "y", "e", "a", "r">>, <<"/", "w", "k">> }} }

RECURSIVE CueSeqs(_)
CueSeqs(n) ==
    IF n = 0 THEN { <<>> }
    ELSE CueSeqs(n - 1) \cup { Append(t, c) : t \in {q \in CueSeqs(n - 1) : Len(q) = n - 1},
                                              c \in Cues }

Salary(lead, c1, a, sep, c2, b, tail) ==
    [kind |-> "salary", lead |-> lead, c1 |-> c1, a |-> a, sep |-> sep, c2 |-> c2,
     b |-> b, tail |-> tail]

\* the numbers a range starts with
FirstNumbers ==
    {n \in Numbers \cup Malformed :
        n.txt \in { <<"3", "0", ".", "0", "0">>, <<"3", "7", ".", "1", "2", "5">>, <<"6", ",", "2", "1", "1">>, <<"1", "3", "2", "K">>, <<"4", "5", "k">>, <<"4", "5", "K">>, <<"1", ".", "2", ".", "3">>, <<".">> }}

\* the currency marks of the two numbers of a range
CurrencyPairs == { <<c, c>> : c \in Currencies } \cup { << <<"$">>, <<>> >> }

\* one amount, or two amounts with a separator, and at most one phrase
Amounts ==
    { Salary(lead, c1, a, <<>>, <<>>, NoNum, tail) :
        lead \in Leads, c1 \in Currencies, a \in Numbers \cup Malformed, tail \in Tails }
    \cup
    { Salary(lead, c[1], a, sep, c[2], b, tail) :
        lead \in {l \in Leads : l.txt # <<"U", "p", " ", "t", "o", " ">>}, c \in CurrencyPairs, a \in FirstNumbers,
        sep \in Separators, b \in SecondNumbers, tail \in Tails }

\* an amount followed by up to MaxCues phrases
Cued ==
    { Salary(Num(<<>>, None), c1, a, <<>>, <<>>, NoNum, tail) :
        c1 \in { <<>> },
        a \in {n \in Numbers : n.txt \in { <<"9", "0", "K">>, <<"3", "7", ".", "1", "2", "5">> }},
        tail \in CueSeqs(MaxCues) }

\* texts without an amount
Prose ==
    { [kind |-> "prose", txt |-> x] :
        x \in { <<>>, <<" ">>, <<" ", "\t", " ">>, <<"N", "e", "g", "o", "t", "i", "a", "b", "l", "e">>, <<"C", "o", "m", "p", "e", "t", "i", "t", "i", "v", "e", " ", "p", "a", "y", ".">>,
                <<"D", "O", "E", " ", "a", " ", "y", "e", "a", "r">>, <<"P", "a", "i", "d", " ", "h", "o", "u", "r", "l", "y">>,
                <<"N", "e", "g", "o", "t", "i", "a", "b", "l", "e", ",", " ", "p", "e", "r", " ", "m", "o", "n", "t", "h">> } }

\* what a salary cell holds when it is no text
NonText == { [kind |-> "value", value |-> v] : v \in { None, NaN, [tag |-> "int", v |-> 90000] } }

\* a parenthesised note: root and pkg as for a phrase; inner is what is
\* written inside the outermost pair of parentheses
Note(txt, root, pkg, nested) ==
    [txt |-> txt, root |-> root, pkg |-> pkg, range |-> <<>>, nested |-> nested]

Notes ==
    { Note(<<"(", "D", "O", "E", ")">>, "none", "none", FALSE),
      Note(<<"(", "p", "e", "r", " ", "h", "o", "u", "r", ")">>, "hour", "hour", FALSE),
      Note(<<"(", "e", "s", "t", ".", " ", "5", "K", " ", "a", " ", "m", "o", "n", "t", "h", ")">>, "month", "month", FALSE),
      Note(<<"(", "a", "p", "p", "r", "o", "x", " ", "(", "e", "s", "t", ".", ")", " ", "5", "0", "K", ")">>, "none", "none", TRUE),
      Note(<<"(", "i", "n", "c", "l", ".", " ", "(", "m", "a", "x", ")", " ", "1", "0", "-", "2", "0", ")">>, "none", "none", TRUE) }

NoAmount == Num(<<"D", "O", "E">>, None)

Annotated(a, note, first, tail) ==
    [kind |-> "annotated", a |-> a, note |-> note, first |-> first, tail |-> tail]

\* an amount, or none, with a note before or after it and at most one phrase
Annotations ==
    { Annotated(a, note, first, tail) :
        a \in {NoAmount} \cup {n \in Numbers : n.txt \in { <<"9", "0", "K">>, <<"3", "0", ".", "0", "0">> }},
        note \in Notes, first \in BOOLEAN,
        tail \in { <<>> } \cup { <<c>> : c \in {q \in Cues : q.txt \in { <<" ", "a", " ", "y", "e", "a", "r">>, <<" ", "a", " ", "w", "e", "e", "k">> }} } }

\* str(n) of an int n >= 0
RECURSIVE ToDigits(_)
ToDigits(n) ==
    IF n < 10 THEN <<DigitChars[n + 1]>>
    ELSE ToDigits(n \div 10) \o <<DigitChars[(n % 10) + 1]>>

\* annualized values that earlier calls produced: 30.00 an hour, 6,211 a
\* month, 45 to 90 a day, 1.5k a week, 156000 a year, and 0
Normalized == {62400, 74532, 17550, 78000, 156000, 0}

\* the texts of normalized values
Renormalized == { [kind |-> "digits", n |-> n] : n \in Normalized }

Inputs == Amounts \cup Cued \cup Prose \cup NonText \cup Annotations \cup Renormalized

RECURSIVE Join(_)
Join(tail) == IF tail = <<>> THEN <<>> ELSE tail[1].txt \o Join(Tail(tail))

\* the argument of the call
Arg(p) ==
    IF p.kind = "value" THEN p.value
    ELSE IF p.kind = "prose" THEN Str(p.txt)
    ELSE IF p.kind = "digits" THEN Str(ToDigits(p.n))
    ELSE IF p.kind = "annotated"
         THEN Str((IF p.first THEN p.note.txt \o <<" ">> \o p.a.txt
                   ELSE p.a.txt \o <<" ">> \o p.note.txt) \o Join(p.tail))
    ELSE Str(p.lead.txt \o p.c1 \o p.a.txt \o p.sep \o p.c2 \o p.b.txt \o Join(p.tail))

----------------------------------------------------------------------------
(* the calls *)

VARIABLES
    parts,      \* how the argument is written
    arg,        \* the argument s of the call
    impl,       \* the copy of the code called: "root" or "pkg"
    pc,         \* "call" before the call, "done" after it
    result      \* what the call returned or raised

\* the data folder and the database of src/jobsearch/database.py
VARIABLES
    folder,         \* the CSV files of the data folder: name -> rows written
    jobs,           \* the rows of the jobs table, in the order of their id
    files_imported, \* the filename column of the files_imported table
    db_pc,          \* "idle", or "loop" inside import_csv_folder_to_db
    csv_files,      \* the files the running import has still to visit
    run             \* the import that runs or ran last, and the one before it

\* one call of _get_page_with_retry
VARIABLES
    attempt,    \* the loop variable of the for loop
    data,       \* the local data: the response decoded last, if any
    retry_pc,   \* "idle", "loop" or "returned"
    returned,   \* what the call returned
    responses   \* what each request of the call was answered with

\* one call of create_dataset
VARIABLES
    call,       \* the arguments of the call and the copy called
    ds_pc,      \* "idle", "call" or "done"
    outcome     \* what the call raised or returned, what it read and saved

\* one call of search
VARIABLES
    search_args,     \* job_title, location and save of the call, and the day
    job_list,        \* the local job_list
    next_page_token, \* the local next_page_token
    search_pc,       \* "idle", "loop", "after" the loop, or "done"
    requests,        \* the params of each request and the results it got
    search_returned  \* the rows of the DataFrame returned

salaryVars == <<parts, arg, impl, pc, result>>

dbVars == <<folder, jobs, files_imported, db_pc, csv_files, run>>

retryVars == <<attempt, data, retry_pc, returned, responses>>

datasetVars == <<call, ds_pc, outcome>>

searchVars == <<search_args, job_list, next_page_token, search_pc, requests, search_returned>>

vars == <<salaryVars, dbVars, retryVars, datasetVars, searchVars>>

NoResult == [kind |-> "none"]

\* no call of parse_salary is under way
SalaryIdle ==
    /\ parts = [kind |-> "none"]
    /\ arg = None
    /\ impl = "pkg"
    /\ pc = "idle"
    /\ result = NoResult

\* the local data before its first assignment
Unbound == [tag |-> "unbound"]

\* no call of _get_page_with_retry is under way
RetryIdle ==
    /\ attempt = 0
    /\ data = Unbound
    /\ retry_pc = "idle"
    /\ returned = Unbound
    /\ responses = <<>>

\* no call of create_dataset is under way
DatasetIdle ==
    /\ call = [kind |-> "none"]
    /\ ds_pc = "idle"
    /\ outcome = NoResult

\* no call of search is under way
SearchIdle ==
    /\ search_args = [kind |-> "none"]
    /\ job_list = <<>>
    /\ next_page_token = None
    /\ search_pc = "idle"
    /\ requests = <<>>
    /\ search_returned = Unbound

\* no import ran since the folder or the tables were last written
NoRun == [kind |-> "none"]

\* an empty folder and the empty tables that init_db creates
DbIdle ==
    /\ folder = <<>>
    /\ jobs = <<>>
    /\ files_imported = {}
    /\ db_pc = "idle"
    /\ csv_files = <<>>
    /\ run = NoRun

Init ==
    /\ parts \in Inputs
    /\ arg = Arg(parts)
    /\ impl \in {"root", "pkg"}
    /\ pc = "call"
    /\ result = NoResult
    /\ DbIdle
    /\ RetryIdle
    /\ DatasetIdle
    /\ SearchIdle

\* combined_df["salary"].apply(self.parse_salary), for one row
CallParseSalary ==
    /\ pc = "call"
    /\ impl = "root"
    /\ result' = parse_salary(arg)
    /\ pc' = "done"
    /\ UNCHANGED <<parts, arg, impl, dbVars, retryVars, datasetVars, searchVars>>

CallPkgParseSalary ==
    /\ pc = "call"
    /\ impl = "pkg"
    /\ result' = pkg_parse_salary(arg)
    /\ pc' = "done"
    /\ UNCHANGED <<parts, arg, impl, dbVars, retryVars, datasetVars, searchVars>>

Next == CallParseSalary \/ CallPkgParseSalary

Spec == Init /\ [][Next]_vars

----------------------------------------------------------------------------
(* what the texts say, read off the way they are written *)

Call(i, s) == IF i = "root" THEN parse_salary(s) ELSE pkg_parse_salary(s)

Done == pc = "done"

Returned == Done /\ result.kind = "return"

\* the call returned a record with a period
Populated == Returned /\ result.value.period # None

IsSalary == parts.kind = "salary"

\* the text is written as number, dash, number
HasRange(p) == p.b # NoNum /\ p.sep \in Dashes

\* the text holds a range after its amounts
HasLaterRange(p) == \E i \in 1..Len(p.tail) : p.tail[i].range # <<>>

\* the two numbers of the leftmost range of the text, or twice its first
\* number when it holds no range
ExpectedPair(p) ==
    IF HasRange(p) THEN <<p.a.val, p.b.val>>
    ELSE IF HasLaterRange(p)
         THEN (CHOOSE c \in Range(p.tail) : c.range # <<>>).range
         ELSE IF p.lead.val # None THEN <<p.lead.val, p.lead.val>>
              ELSE <<p.a.val, p.a.val>>

Priority == <<"hour", "day", "week", "month", "year">>

CueOf(c, i) == IF i = "root" THEN c.root ELSE c.pkg

\* the first period, in the order of Priority, that a phrase of the tail is a
\* cue of; "year" when there is none
ExpectedPeriod(tail, i) ==
    LET found == {n \in 1..5 : \E j \in 1..Len(tail) : CueOf(tail[j], i) = Priority[n]}
    IN IF found = {} THEN "year"
       ELSE Priority[CHOOSE n \in found : \A m \in found : n <= m]

Factor(period) ==
    CASE period = "hour" -> 2080
      [] period = "day" -> 260
      [] period = "week" -> 52
      [] period = "month" -> 12
      [] period = "year" -> 1

IsBlank(chars) == \A i \in 1..Len(chars) : chars[i] \in {" ", "\t", "\n", "\r"}

\* every k or K that follows a digit, in the other case
FlipK(chars) ==
    [i \in 1..Len(chars) |->
        IF i > 1 /\ IsDigit(chars[i - 1]) /\ chars[i] = "k" THEN "K"
        ELSE IF i > 1 /\ IsDigit(chars[i - 1]) /\ chars[i] = "K" THEN "k"
        ELSE chars[i]]

\* what the call returned or raised, without the blocks it ran
Outcome(r) == IF r.kind = "return" THEN <<"return", r.value>> ELSE <<"raise", r.exc>>

ExampleHour == Salary(Num(<<>>, None), <<"$">>, Num(<<"3", "0", ".", "0", "0">>, Dec(30, 0)), <<"-">>, <<>>,
                      Num(<<"3", "7", ".", "5", "0">>, Dec(37, 500)), <<Phrase(<<" ", "a", "n", " ", "h", "o", "u", "r">>, "hour", "hour")>>)

ExampleMonth == Salary(Num(<<>>, None), <<>>, Num(<<"6", ",", "2", "1", "1">>, Dec(6211, 0)), <<"-">>, <<>>,
                       Num(<<"1", "5", ",", "2", "1", "1">>, Dec(15211, 0)), <<Phrase(<<" ", "a", " ", "m", "o", "n", "t", "h">>, "month", "month")>>)

ExampleYear == Salary(Num(<<>>, None), <<"U", "S", "$">>, Num(<<"1", "3", "2", "K">>, Dec(132000, 0)), <<"-">>, <<"U", "S", "$">>,
                      Num(<<"1", "8", "0", "K">>, Dec(180000, 0)), <<Phrase(<<" ", "a", " ", "y", "e", "a", "r">>, "none", "year")>>)

Example90K == Salary(Num(<<>>, None), <<>>, Num(<<"9", "0", "K">>, Dec(90000, 0)), <<>>, <<>>, NoNum, <<>>)

----------------------------------------------------------------------------
(* the claims *)

\* C1: a record that parse_salary returns has all seven fields None or none
\* of them None, in both copies of the code.
C1_AllOrNothing ==
    Returned =>
        \/ \A k \in Fields : result.value[k] = None
        \/ \A k \in Fields : result.value[k] # None

C1_Witness == Populated /\ \A k \in Fields : result.value[k] # None

\* C2: parse_salary raises for no text: every call with a str returns a
\* record, and the record is the all-None one when the number that would be
\* converted is no decimal.
C2_NeverRaises ==
    (Done /\ arg.tag = "str") =>
        /\ result.kind = "return"
        /\ (IsSalary /\ ValueError \in Range(ExpectedPair(parts))) => result.value = AllNone

\* C3: for an argument that is no str, or a str of nothing but whitespace,
\* parse_salary returns the all-None record from its guard, and runs none of
\* the blocks after it.
C3_GuardReturnsAllNone ==
    (Done /\ (arg.tag # "str" \/ IsBlank(arg.chars))) =>
        result = Return(AllNone, <<"guard">>)

C3_Witness ==
    /\ Done
    /\ arg.tag = "str"
    /\ Len(arg.chars) > 1
    /\ IsBlank(arg.chars)
    /\ result.value = AllNone

\* C4: the period of a populated record is the first of hour, day, week,
\* month, year that the text holds a cue of (the cues of the copy called), and
\* year when it holds none.
C4_PeriodPriority ==
    (Populated /\ IsSalary) =>
        result.value.period = Period(ExpectedPeriod(parts.tail, impl))

\* a text with a yearly cue and then 'month': month
C4_Witness ==
    /\ Populated
    /\ IsSalary
    /\ Len(parts.tail) = 2
    /\ parts.tail[1].txt = <<" ", "p", "e", "r", " ", "y", "e", "a", "r">>
    /\ parts.tail[2].txt = <<" ", "a", " ", "m", "o", "n", "t", "h">>
    /\ result.value.period = Period("month")

\* C5: in a populated record the three annualized fields are min_raw,
\* max_raw and their mean (min_raw + max_raw) / 2, each times the factor of
\* the period and rounded to 2 decimals; '$30.00-37.50 an hour' gives
\* annualized_avg 70200.00.
C5_Annualized ==
    Populated =>
        LET r == result.value
            n == Factor(r.period.name)
        IN /\ r.min_annualized = Round2(Mul(r.min_raw, n))
           /\ r.max_annualized = Round2(Mul(r.max_raw, n))
           /\ r.annualized_avg = Round2(Mul(Div2(Add(r.min_raw, r.max_raw)), n))
           /\ parts = ExampleHour => r.annualized_avg = Dec(70200, 0)

C5_Witness ==
    /\ Populated
    /\ parts = ExampleHour
    /\ result.value.min_annualized = Dec(62400, 0)
    /\ result.value.max_annualized = Dec(78000, 0)
    /\ result.value.annualized_avg = Dec(70200, 0)

\* C6: when the text holds a range, the record is made of the leftmost one:
\* min_raw is its first number and max_raw its second, whatever single
\* number stands before it and whatever range follows it.
C6_FirstRange ==
    (Returned /\ IsSalary /\ (HasRange(parts) \/ HasLaterRange(parts))) =>
        /\ Populated
        /\ <<result.value.min_raw, result.value.max_raw>> = ExpectedPair(parts)

C6_Witness ==
    /\ Populated
    /\ IsSalary
    /\ parts.lead.val = Dec(2, 0)
    /\ HasRange(parts)
    /\ HasLaterRange(parts)
    /\ result.value.min_raw = parts.a.val
    /\ result.value.max_raw = parts.b.val

\* what the record of a text with numbers but no range has in either reading
\* of C7: low and high are the first number, and the annualized fields agree
SingleNumber ==
    LET r == result.value
    IN /\ <<r.min_raw, r.max_raw>> = ExpectedPair(parts)
       /\ r.min_raw = r.max_raw
       /\ r.min_annualized = r.max_annualized
       /\ r.max_annualized = r.annualized_avg
       /\ parts = Example90K =>
            r.period = Period("year") /\ r.min_raw = Dec(90000, 0)

NoRange == IsSalary /\ ~HasRange(parts) /\ ~HasLaterRange(parts)

\* C7 as stated: with numbers but no range, min_raw, max_raw and avg_value
\* are all equal to the first number, the three annualized fields are equal,
\* and '90K' gives year and 90000.
C7_SingleAllEqual ==
    (Populated /\ NoRange) => SingleNumber /\ result.value.avg_value = result.value.min_raw

\* C7 as amended: with numbers but no range, min_raw and max_raw are the
\* first number, avg_value is that number rounded to 2 decimals, the three
\* annualized fields are equal, and '90K' gives year and 90000.
C7_SingleRounded ==
    (Populated /\ NoRange) =>
        SingleNumber /\ result.value.avg_value = Round2(result.value.min_raw)

C7_Witness ==
    /\ Populated
    /\ NoRange
    /\ parts.lead.val = Dec(2, 0)
    /\ parts.a.val = Dec(90000, 0)
    /\ result.value.min_raw = Dec(2, 0)
    /\ result.value.avg_value = Dec(2, 0)

\* C8: a number with the suffix k or K is 1000 times the decimal before the
\* suffix and any other number its plain decimal, and writing the suffixes of
\* a text in the other case changes nothing of what the call returns.
C8_SuffixCase ==
    /\ (Populated /\ IsSalary) =>
          <<result.value.min_raw, result.value.max_raw>> = ExpectedPair(parts)
    /\ (Done /\ arg.tag = "str") =>
          Outcome(Call(impl, Str(FlipK(arg.chars)))) = Outcome(result)

C8_Witness ==
    /\ Populated
    /\ IsSalary
    /\ HasRange(parts)
    /\ parts.a.txt = <<"4", "5", "K">>
    /\ parts.b.txt = <<"1", "6", "0", "k">>
    /\ result.value.min_raw = Dec(45000, 0)
    /\ result.value.max_raw = Dec(160000, 0)

\* C9: in a populated record avg_value is (min_raw + max_raw) / 2 rounded to
\* 2 decimals, and min_raw and max_raw are the numbers of the text, not
\* rounded.
C9_Average ==
    Populated =>
        LET r == result.value
        IN /\ r.avg_value = Round2(Div2(Add(r.min_raw, r.max_raw)))
           /\ IsSalary => r.min_raw = ExpectedPair(parts)[1] /\ r.max_raw = ExpectedPair(parts)[2]

\* 37.125-37.50: the mean 37.3125 is returned as 37.31, the low as 37.125
C9_Witness ==
    /\ Populated
    /\ IsSalary
    /\ HasRange(parts)
    /\ result.value.min_raw = Dec(37, 125)
    /\ result.value.max_raw = Dec(37, 500)
    /\ result.value.avg_value = Dec(37, 310)

\* the text of p without its currency marks
Bare(p) == [p EXCEPT !.c1 = <<>>, !.c2 = <<>>]

\* C10: a text with US$ or $ before its numbers gives what the text without
\* them gives, and digits grouped by commas are one number:
\* '6,211-15,211 a month' gives 6211, 15211, month, 74532.00, 182532.00 and
\* 'US$132K-US$180K a year' gives 132000, 180000, year, 156000.00.
C10_CurrencyAndCommas ==
    /\ (Done /\ IsSalary) => Outcome(Call(impl, Arg(Bare(parts)))) = Outcome(result)
    /\ (Done /\ parts = ExampleMonth) =>
          /\ Populated
          /\ result.value.min_raw = Dec(6211, 0)
          /\ result.value.max_raw = Dec(15211, 0)
          /\ result.value.period = Period("month")
          /\ result.value.min_annualized = Dec(74532, 0)
          /\ result.value.max_annualized = Dec(182532, 0)
    /\ (Done /\ parts = ExampleYear) =>
          /\ Populated
          /\ result.value.min_raw = Dec(132000, 0)
          /\ result.value.max_raw = Dec(180000, 0)
          /\ result.value.period = Period("year")
          /\ result.value.avg_value = Dec(156000, 0)

C10_Witness ==
    /\ Populated
    /\ parts = ExampleYear
    /\ result.value.avg_value = Dec(156000, 0)
    /\ Outcome(result) = Outcome(Call(impl, Arg(Bare(parts))))


-----------------------------------------------------------------------------
(* texts without a number, notes in parentheses, normalized values *)

\* the text holds no digit and no dot, so no number pattern can match in it
NoNumberText(chars) == \A i \in 1..Len(chars) : ~IsDigit(chars[i]) /\ chars[i] # "."

IsText == arg.tag = "str" /\ "chars" \in DOMAIN arg

\* C11: a text that is not blank and holds nothing a number pattern matches
\* gives the record with every field None, the period too, also when the text
\* names a period: 'Paid hourly' gives no period.
C11_NoMatchAllNone ==
    (Done /\ IsText /\ ~IsBlank(arg.chars) /\ NoNumberText(arg.chars)) =>
        /\ result.kind = "return"
        /\ result.value = AllNone
        /\ \E i \in 1..Len(result.steps) : result.steps[i] = "period"

C11_Witness ==
    /\ Returned
    /\ parts.kind = "prose"
    /\ parts.txt = <<"P", "a", "i", "d", " ", "h", "o", "u", "r", "l", "y">>
    /\ Contains(lower(arg.chars), <<"h", "o", "u", "r">>)
    /\ result.value.period = None
    /\ result.value = AllNone

IsAnnotated == parts.kind = "annotated"

\* C12: the period is read from the text as it was given, so a phrase inside
\* a note in parentheses, which cleaning removes, still decides the period:
\* '90K (per hour) a year' is paid by the hour.
C12_PeriodFromOriginal ==
    (Populated /\ IsAnnotated) =>
        result.value.period = Period(ExpectedPeriod(<<parts.note>> \o parts.tail, impl))

C12_Witness ==
    /\ Populated
    /\ IsAnnotated
    /\ arg = Str(<<"9", "0", "K", " ", "(", "p", "e", "r", " ", "h", "o", "u", "r", ")", " ", "a", " ", "y", "e", "a", "r">>)
    /\ ~Contains(lower(clean(arg.chars)), <<"h", "o", "u", "r">>)
    /\ result.value.period = Period("hour")
    /\ result.value.min_raw = Dec(90000, 0)

C14_Idempotent ==
    (Done /\ parts.kind = "digits") =>
        /\ result.kind = "return"
        /\ result.value = [min_raw |-> Float(parts.n, 0),
                           max_raw |-> Float(parts.n, 0),
                           avg_value |-> Float(parts.n, 0),
                           min_annualized |-> Float(parts.n, 0),
                           max_annualized |-> Float(parts.n, 0),
                           annualized_avg |-> Float(parts.n, 0),
                           period |-> Period("year")]

C14_Witness ==
    /\ Populated
    /\ parts.kind = "digits"
    /\ arg = Str(<<"1", "5", "6", "0", "0", "0">>)
    /\ result.value.annualized_avg = Float(156000, 0)
    /\ result.value.min_raw = result.value.annualized_avg


-----------------------------------------------------------------------------
(* the data folder, the jobs table and the import of the folder *)

MaxRows == 4

\* what SQLite stores for None and for float("nan")
NULL == [tag |-> "NULL"]

\* one entry of job_list in search: the columns the import works on
Listing(job_title, salary, link) ==
    [job_title |-> job_title, salary |-> salary, link |-> link]

\* two listings under one share_link, a listing without a salary, a listing
\* without a share_link, and a listing whose salary is no number
Listings ==
    { Listing("Analyst I", Str(<<"9", "0", "K">>), Str(<<"g", ".", "c", "o", "/", "1">>)),
      Listing("Analyst II", Str(<<"4", "5", "k", " ", "a", " ", "w", "e", "e", "k">>), Str(<<"g", ".", "c", "o", "/", "1">>)),
      Listing("Analyst III", None, Str(<<"g", ".", "c", "o", "/", "2">>)),
      Listing("Analyst IV", Str(<<"9", "0", "K">>), None),
      Listing("Analyst V", Str(<<"C", "o", "m", "p", "e", "t", "i", "t", "i", "v", "e", " ", "p", "a", "y", ".">>), Str(<<"g", ".", "c", "o", "/", "3">>)) }

ListingOf(title) == CHOOSE l \in Listings : l.job_title = title

\* the job_list of a search; the empty one is a search without results
JobLists ==
    { <<>>,
      <<ListingOf("Analyst I"), ListingOf("Analyst IV")>>,
      <<ListingOf("Analyst II"), ListingOf("Analyst III")>>,
      <<ListingOf("Analyst IV")>>,
      <<ListingOf("Analyst III"), ListingOf("Analyst V")>> }

Todays == { <<"2", "0", "2", "4", "-", "0", "1", "-", "0", "5">>, <<"2", "0", "2", "4", "-", "0", "1", "-", "0", "6">> }

\* filename = f"{safe_location}_{safe_title}_jobs_{today}.csv"
JobsFileName(safe_location, safe_title, today) ==
    safe_location \o <<"_">> \o safe_title \o <<"_", "j", "o", "b", "s", "_">> \o today \o <<".", "c", "s", "v">>

\* Path.glob of a name against a pattern in which * stands for any characters
\* of one path component
\* the pattern is read character by character; ends holds the lengths of
\* the prefixes of the name that the pattern read so far matches
RECURSIVE fnmatch_from(_, _, _)
fnmatch_from(name, pat, ends) ==
    IF pat = <<>> THEN Len(name) \in ends
    ELSE fnmatch_from(name, Tail(pat),
            IF Head(pat) = "*"
            THEN {k \in 0..Len(name) :
                    \E s \in ends : s <= k /\ \A i \in (s + 1)..k : name[i] # "/"}
            ELSE {s + 1 : s \in {t \in ends : t < Len(name) /\ name[t + 1] = Head(pat)}})

fnmatch(name, pat) == fnmatch_from(name, pat, {0})

\* the names of the folder that a pattern selects
glob(dir, pat) == {name \in DOMAIN dir : fnmatch(name, pat)}

\* every order in which glob may list the names
Orders(names) ==
    {order \in [1..Cardinality(names) -> names] :
        \A i, j \in 1..Cardinality(names) : order[i] = order[j] => i = j}

\* csv.stem: the name without its suffix .csv
stem(name) == SubSeq(name, 1, Len(name) - 4)

\* re.match of \d{4}-\d{2}-\d{2} at position i
DateAt(chars, i) ==
    /\ i + 9 <= Len(chars)
    /\ \A k \in {0, 1, 2, 3, 5, 6, 8, 9} : IsDigit(chars[i + k])
    /\ chars[i + 4] = "-"
    /\ chars[i + 7] = "-"

\* re.search(r"\d{4}-\d{2}-\d{2}", csv.stem): group(0) or None
re_search_date(chars) ==
    LET found == {i \in 1..Len(chars) : DateAt(chars, i)}
    IN IF found = {} THEN None
       ELSE LET i == CHOOSE n \in found : \A m \in found : n <= m
            IN Str(SubSeq(chars, i, i + 9))

\* an empty cell of a CSV file is read back as NaN
read_cell(v) == IF v = None THEN NaN ELSE v

\* pd.read_csv of what job_df.to_csv wrote; a file without columns, which an
\* empty job_df leaves, raises EmptyDataError
read_csv(rows) ==
    IF rows = <<>> THEN Raise("EmptyDataError", <<"read_csv">>)
    ELSE Return([i \in 1..Len(rows) |->
                    [job_title |-> rows[i].job_title,
                     salary |-> read_cell(rows[i].salary),
                     link |-> read_cell(rows[i].link)]], <<"read_csv">>)

\* df["salary"].fillna("").astype(str)
fillna_str(v) == IF v = NaN THEN Str(<<>>) ELSE v


\* the value sqlite3 binds to a parameter: None and NaN are stored as NULL
bind(v) == IF v = None \/ v = NaN THEN NULL ELSE v

\* one record of df.to_dict(orient="records") as the jobs table stores it
Record(row, parsed, date_added) ==
    [job_title |-> row.job_title,
     salary |-> bind(row.salary),
     annualized_avg |-> bind(parsed.annualized_avg),
     period |-> bind(parsed.period),
     link |-> bind(row.link),
     date_added |-> bind(date_added)]

\* df["salary"] = df["salary"].fillna("").astype(str)
fillna_salary(df) ==
    [i \in 1..Len(df) |-> [df[i] EXCEPT !.salary = fillna_str(df[i].salary)]]

\* parsed = df["salary"].apply(self.parse_salary)
apply_parse_salary(df) == [i \in 1..Len(df) |-> pkg_parse_salary(df[i].salary)]

\* the records handed to insert_dataframe: df with the parsed columns and
\* date_added, unless parse_salary raised
to_records(df, parsed, date_added) ==
    IF \E i \in 1..Len(parsed) : parsed[i].kind = "raise"
    THEN Raise("ValueError", <<"read_csv", "parse_salary">>)
    ELSE Return([i \in 1..Len(df) |-> Record(df[i], parsed[i].value, date_added)],
                <<"read_csv", "parse_salary", "date_added">>)

\* the loop body after pd.read_csv, for the dataframe df that was read
import_columns(df, filename) ==
    to_records(df, apply_parse_salary(df), re_search_date(stem(filename)))

\* the loop body for what pd.read_csv gave: its exception, or the records
import_read(read, filename) ==
    IF read.kind = "raise" THEN read
    ELSE import_columns(fillna_salary(read.value), filename)

\* the loop body of import_csv_folder_to_db from pd.read_csv to the
\* date_added column: the records handed to insert_dataframe, or the
\* exception that read_csv or parse_salary raised
import_dataframe(rows, filename) == import_read(read_csv(rows), filename)

\* an INSERT that stores nothing
insert_or_ignore_dropped(table, record) == table

\* INSERT OR IGNORE of one record: link is UNIQUE, and NULL is distinct from
\* every value, NULL included
insert_or_ignore(table, record) ==
    IF record.link # NULL /\ \E i \in 1..Len(table) : table[i].link = record.link
    THEN table
    ELSE Append(table, record)

\* executemany of INSERT OR IGNORE over the records, then commit
RECURSIVE insert_dataframe(_, _)
insert_dataframe(table, records) ==
    IF records = <<>> THEN table
    ELSE insert_dataframe(insert_or_ignore(table, Head(records)), Tail(records))

\* the dataframes a caller hands to insert_dataframe itself
Dataframes ==
    { import_dataframe(rows, <<"e", "x", "p", "o", "r", "t", ".", "c", "s", "v">>).value :
        rows \in { <<ListingOf("Analyst I")>>, <<ListingOf("Analyst II")>>,
                       <<ListingOf("Analyst IV"), ListingOf("Analyst IV")>> } }

InitDb ==
    /\ SalaryIdle
    /\ DbIdle
    /\ RetryIdle
    /\ DatasetIdle
    /\ SearchIdle

\* search(job_title, location, save=True): job_df.to_csv(save_path)
SaveCsv ==
    /\ db_pc = "idle"
    /\ \E rows \in JobLists, today \in Todays :
          folder' = (JobsFileName(<<"T", "X">>, <<"A", "n", "a", "l", "y", "s", "t">>, today) :> rows) @@ folder
    /\ run' = NoRun
    /\ UNCHANGED <<jobs, files_imported, db_pc, csv_files, salaryVars, retryVars, datasetVars, searchVars>>

\* Database().insert_dataframe(df)
InsertDataframe ==
    /\ db_pc = "idle"
    /\ \E df \in Dataframes :
          /\ Len(jobs) + Len(df) <= MaxRows
          /\ jobs' = insert_dataframe(jobs, df)
    /\ run' = NoRun
    /\ UNCHANGED <<folder, files_imported, db_pc, csv_files, salaryVars, retryVars, datasetVars, searchVars>>

\* a table files_imported in which no name is ever found
file_already_imported_never(names, filename) == FALSE

\* db.file_already_imported(filename)
file_already_imported(names, filename) == filename \in names

\* a run that ended, as the run after it remembers it
Ended(r) ==
    IF r = NoRun THEN NoRun
    ELSE [kind |-> "ended", order |-> r.order, raised |-> r.raised,
          jobs |-> r.jobs, files |-> r.files]

\* the run that starts with the files in this order
Started(order, before) ==
    [kind |-> "run", order |-> order, ended |-> FALSE, raised |-> "none",
     jobs |-> <<>>, files |-> {}, prev |-> Ended(before)]

\* the run r at its end: what it raised and the tables it leaves
EndOf(r, exc, table, names) ==
    [r EXCEPT !.ended = TRUE, !.raised = exc, !.jobs = table, !.files = names]

\* import_csv_folder_to_db up to the loop: the files are listed in any order,
\* and without files the call returns
ImportStart ==
    /\ db_pc = "idle"
    /\ \E order \in Orders(glob(folder, <<"*", ".", "c", "s", "v">>)) :
          /\ csv_files' = order
          /\ db_pc' = IF order = <<>> THEN "idle" ELSE "loop"
          /\ run' = IF order = <<>>
                    THEN EndOf(Started(order, run), "none", jobs, files_imported)
                    ELSE Started(order, run)
    /\ UNCHANGED <<folder, jobs, files_imported, salaryVars, retryVars, datasetVars, searchVars>>

\* one round of the loop for the file filename, df being what the loop body
\* makes of it: a file already imported is skipped; an exception ends the
\* call; otherwise the rows are inserted and the file is marked
ImportRound(filename, df) ==
    IF file_already_imported(files_imported, filename)
    THEN /\ csv_files' = Tail(csv_files)
         /\ UNCHANGED <<jobs, files_imported, db_pc, run>>
    ELSE IF df.kind = "raise"
         THEN /\ csv_files' = <<>>
              /\ db_pc' = "idle"
              /\ run' = EndOf(run, df.exc, jobs, files_imported)
              /\ UNCHANGED <<jobs, files_imported>>
         ELSE /\ Len(jobs) + Len(df.value) <= MaxRows
              /\ jobs' = insert_dataframe(jobs, df.value)
              /\ files_imported' = files_imported \cup {filename}
              /\ csv_files' = Tail(csv_files)
              /\ UNCHANGED <<db_pc, run>>

\* one round of the loop over csv_files
ImportFile ==
    /\ db_pc = "loop"
    /\ csv_files # <<>>
    /\ ImportRound(Head(csv_files), import_dataframe(folder[Head(csv_files)], Head(csv_files)))
    /\ UNCHANGED <<folder, salaryVars, retryVars, datasetVars, searchVars>>

\* after the last file: db.close()
ImportEnd ==
    /\ db_pc = "loop"
    /\ csv_files = <<>>
    /\ db_pc' = "idle"
    /\ run' = EndOf(run, "none", jobs, files_imported)
    /\ UNCHANGED <<folder, jobs, files_imported, csv_files, salaryVars, retryVars, datasetVars, searchVars>>

NextDb == SaveCsv \/ InsertDataframe \/ ImportStart \/ ImportFile \/ ImportEnd

SpecDb == InitDb /\ [][NextDb]_vars

\* the listing a row was made from
ListingIn(row) == <<row.job_title, row.salary, row.link>>

\* C16: the jobs table never holds two rows of one link, and a listing that
\* files or dataframes repeat is stored once.
C16_OneRowPerLink ==
    \A i, j \in 1..Len(jobs) :
        i < j => /\ jobs[i].link # jobs[j].link
                 /\ ListingIn(jobs[i]) # ListingIn(jobs[j])


-----------------------------------------------------------------------------
(* _get_page_with_retry *)

\* the default of the parameter max_retries
max_retries == 5

\* a key that a decoded response does not hold
Absent == [tag |-> "absent"]

\* the dict that response.json() returns: the keys the code reads, and page
\* to tell the responses of one call apart
Dict(error, status, page) == [error |-> error, status |-> status, page |-> page]

\* the empty dict {}
EmptyDict == Dict(Absent, Absent, Absent)

\* what one request is answered with: a decoded response, or an exception of
\* requests; transient says how the response reads: TRUE for a not-ready
\* error and for the status Processing
Response(kind, json, transient) == [kind |-> kind, json |-> json, transient |-> transient]

Responses ==
    { Response("json", Dict(Str(<<"S", "e", "a", "r", "c", "h", " ", "n", "o", "t", " ", "r", "e", "a", "d", "y", " ", "y", "e", "t", ".">>), Absent, Absent), TRUE),
      Response("json", Dict(Str(<<"P", "a", "g", "i", "n", "a", "t", "i", "o", "n", " ", "N", "o", "t", " ", "R", "e", "a", "d", "y">>), Absent, Absent), TRUE),
      Response("json", Dict(Absent, Str(<<"P", "r", "o", "c", "e", "s", "s", "i", "n", "g">>), Absent), TRUE),
      Response("json", Dict(Str(<<"I", "n", "v", "a", "l", "i", "d", " ", "A", "P", "I", " ", "k", "e", "y", ".">>), Absent, Absent), FALSE),
      Response("json", Dict(Absent, Str(<<"S", "u", "c", "c", "e", "s", "s">>), 1), FALSE),
      Response("json", Dict(Absent, Str(<<"p", "r", "o", "c", "e", "s", "s", "i", "n", "g">>), 2), FALSE),
      Response("RequestException", Absent, FALSE) }

\* "error" in data and "not ready" in data["error"].lower()
is_not_ready(json) ==
    json.error # Absent /\ Contains(lower(json.error.chars), <<"n", "o", "t", " ", "r", "e", "a", "d", "y">>)

\* a status that is never Processing
is_processing_never(json) == FALSE

\* data.get("status") == "Processing"
is_processing(json) == json.status = Str(<<"P", "r", "o", "c", "e", "s", "s", "i", "n", "g">>)

\* the return after the loop that forgets the response decoded last
last_response_forgotten(local) == EmptyDict

\* return data if "data" in locals() else {}
last_response(local) == IF local = Unbound THEN EmptyDict ELSE local

InitRetry ==
    /\ SalaryIdle
    /\ DbIdle
    /\ DatasetIdle
    /\ SearchIdle
    /\ attempt = 1
    /\ data = Unbound
    /\ retry_pc = "loop"
    /\ returned = Unbound
    /\ responses = <<>>

\* one round of the for loop: the request, and what follows its answer
Request ==
    /\ retry_pc = "loop"
    /\ attempt <= max_retries
    /\ \E r \in Responses :
          /\ responses' = Append(responses, r)
          /\ IF r.kind = "RequestException"
             THEN /\ attempt' = attempt + 1
                  /\ UNCHANGED <<data, retry_pc, returned>>
             ELSE /\ data' = r.json
                  /\ IF is_not_ready(r.json) \/ is_processing(r.json)
                     THEN /\ attempt' = attempt + 1
                          /\ UNCHANGED <<retry_pc, returned>>
                     ELSE /\ returned' = r.json
                          /\ retry_pc' = "returned"
                          /\ UNCHANGED attempt
    /\ UNCHANGED <<salaryVars, dbVars, datasetVars, searchVars>>

\* after the loop: return data if "data" in locals() else {}
MaxRetriesReached ==
    /\ retry_pc = "loop"
    /\ attempt > max_retries
    /\ returned' = last_response(data)
    /\ retry_pc' = "returned"
    /\ UNCHANGED <<attempt, data, responses, salaryVars, dbVars, datasetVars, searchVars>>

NextRetry == Request \/ MaxRetriesReached

SpecRetry == InitRetry /\ [][NextRetry]_vars

\* every request is answered or fails, and the loop goes on after it
SpecRetryFair == SpecRetry /\ WF_vars(NextRetry)

\* the call returned from inside the loop
ReturnedEarly == retry_pc = "returned" /\ attempt <= max_retries

\* C17: a not-ready or Processing response that leaves attempts is followed
\* by the next request; what is returned from inside the loop is the
\* response to the last request, it is neither not ready nor Processing, and
\* every request before it was answered by a transient response or failed.
C17_RetryOnTransient ==
    /\ \A i \in 1..Len(responses) :
          (responses[i].transient /\ i < max_retries) =>
              \/ Len(responses) > i
              \/ retry_pc = "loop" /\ attempt = i + 1
    /\ ReturnedEarly =>
          /\ responses # <<>>
          /\ responses[Len(responses)].kind = "json"
          /\ ~responses[Len(responses)].transient
          /\ returned = responses[Len(responses)].json
    /\ \A i \in 1..Len(responses) :
          (responses[i].kind = "json" /\ ~responses[i].transient) =>
              /\ i = Len(responses)
              /\ retry_pc = "returned"
              /\ returned = responses[i].json

C17_Witness ==
    /\ ReturnedEarly
    /\ Len(responses) = 4
    /\ responses[1].json = Dict(Str(<<"S", "e", "a", "r", "c", "h", " ", "n", "o", "t", " ", "r", "e", "a", "d", "y", " ", "y", "e", "t", ".">>), Absent, Absent)
    /\ responses[2].kind = "RequestException"
    /\ responses[3].json = Dict(Absent, Str(<<"P", "r", "o", "c", "e", "s", "s", "i", "n", "g">>), Absent)
    /\ returned = Dict(Absent, Str(<<"S", "u", "c", "c", "e", "s", "s">>), 1)


-----------------------------------------------------------------------------
(* create_dataset *)

\* an int argument
PyInt(v) == [tag |-> "int", v |-> v]

\* a dt.datetime argument
Datetime(year, month, day) == [tag |-> "datetime", year |-> year, month |-> month, day |-> day]

\* bool(v) of an argument that is None, an int or a datetime
truthy(v) == v # None /\ v # PyInt(0)

\* f"{n:02d}" of an int n >= 0
pad2(n) == IF n < 10 THEN <<"0">> \o ToDigits(n) ELSE ToDigits(n)

\* valid that accepts state together with all_states
valid_either(all_states, state) == all_states \/ state # None

\* valid = (all_states and state is None) or (not all_states and state is not None)
valid(all_states, state) ==
    (all_states /\ state = None) \/ (~all_states /\ state # None)

\* the test of the year that looks at the month only
year_missing_month_only(year, month, day) == truthy(month) /\ ~truthy(year)

\* (month or day) and not year
year_missing(year, month, day) == (truthy(month) \/ truthy(day)) /\ ~truthy(year)

\* prefix in src/JobSearch.py
prefix(state, job_title_safe) ==
    IF state # None
    THEN replace(state.chars, <<" ">>, <<"_">>) \o <<"_">> \o job_title_safe \o <<"_", "j", "o", "b", "s", "_">>
    ELSE <<"*", "_">> \o job_title_safe \o <<"_", "j", "o", "b", "s", "_">>

\* dataset_label in src/jobsearch/JobSearch.py
dataset_label(all_states, state) ==
    IF all_states THEN <<"*">> ELSE replace(state.chars, <<" ">>, <<"_">>)

\* prefix in src/jobsearch/JobSearch.py
pkg_prefix(all_states, state, job_title_safe) ==
    dataset_label(all_states, state) \o <<"_">> \o job_title_safe \o <<"_", "j", "o", "b", "s", "_">>

\* the if/elif chain that builds file_pattern from a prefix
file_pattern(pre, year, month, day) ==
    IF truthy(year) /\ truthy(month) /\ truthy(day)
    THEN pre \o ToDigits(year.v) \o <<"-">> \o pad2(month.v) \o <<"-">> \o pad2(day.v) \o <<".", "c", "s", "v">>
    ELSE IF truthy(year) /\ truthy(month)
         THEN pre \o ToDigits(year.v) \o <<"-">> \o pad2(month.v) \o <<"-", "*", ".", "c", "s", "v">>
         ELSE IF truthy(year)
              THEN pre \o ToDigits(year.v) \o <<"-", "*", ".", "c", "s", "v">>
              ELSE pre \o <<"*", ".", "c", "s", "v">>

\* the loop over files: the rows of every file that read_csv can read
RECURSIVE read_files(_, _)
read_files(dir, files) ==
    IF files = <<>> THEN <<>>
    ELSE LET df == read_csv(dir[Head(files)])
         IN (IF df.kind = "raise" THEN <<>> ELSE df.value) \o read_files(dir, Tail(files))

\* what a call of create_dataset did: kind is "raise" or "return", pattern the
\* file_pattern, files the files handed to read_csv, rows the dataframe
\* returned, saved the name of the file written
Did(kind, exc, pattern, files, rows, saved, steps) ==
    [kind |-> kind, exc |-> exc, pattern |-> pattern, files |-> files,
     rows |-> rows, saved |-> saved, steps |-> steps]

\* raise ValueError(msg)
ValueErrorOf(msg) == [tag |-> "ValueError", msg |-> msg]

StateOrAllStates ==
    ValueErrorOf("You must specify either 'state' OR  all_states=True, but not both")

YearRequired == ValueErrorOf("Year is required when filtering by month or day.")

\* the ValueError that float() raises inside parse_salary
NotAFloat == ValueErrorOf("could not convert string to float")


\* year, month and day after "if date:" has replaced them
broken_down(a) ==
    IF truthy(a.date)
    THEN [year |-> PyInt(a.date.year), month |-> PyInt(a.date.month), day |-> PyInt(a.date.day)]
    ELSE [year |-> a.year, month |-> a.month, day |-> a.day]

\* the call has got as far as the glob with this file_pattern
Globbing(pattern, steps) ==
    [kind |-> "glob", exc |-> None, pattern |-> pattern, files |-> <<>>,
     rows |-> <<>>, saved |-> None, steps |-> steps]

\* create_dataset of src/JobSearch.py up to the glob
create_dataset(a) ==
    LET job_title_safe == replace(a.job_title, <<" ">>, <<"_">>)
        d == broken_down(a)
        pre == prefix(a.state, job_title_safe)
    IN IF ~valid(a.all_states, a.state)
       THEN Did("raise", StateOrAllStates, None, <<>>, <<>>, None, <<"valid">>)
       ELSE IF truthy(a.date) \/ truthy(d.year) \/ truthy(d.month) \/ truthy(d.day)
            THEN IF year_missing(d.year, d.month, d.day)
                 THEN Did("raise", YearRequired, None, <<>>, <<>>, None, <<"valid", "date">>)
                 ELSE Globbing(file_pattern(pre, d.year, d.month, d.day), <<"valid", "date">>)
            ELSE Globbing(pre \o <<"*", ".", "c", "s", "v">>, <<"valid", "date">>)

\* create_dataset of src/jobsearch/JobSearch.py up to the glob
pkg_create_dataset(a) ==
    LET job_title_safe == replace(a.job_title, <<" ">>, <<"_">>)
        d == broken_down(a)
        pre == pkg_prefix(a.all_states, a.state, job_title_safe)
    IN IF ~valid(a.all_states, a.state)
       THEN Did("raise", StateOrAllStates, None, <<>>, <<>>, None, <<"valid">>)
       ELSE IF year_missing(d.year, d.month, d.day)
            THEN Did("raise", YearRequired, None, <<>>, <<>>, None, <<"valid", "date">>)
            ELSE Globbing(file_pattern(pre, d.year, d.month, d.day), <<"valid", "date">>)

\* the file that save writes: src/JobSearch.py writes into a folder of its
\* own and only with all_states, src/jobsearch/JobSearch.py into the data
\* folder
save_name(a, copy, today) ==
    LET job_title_safe == replace(a.job_title, <<" ">>, <<"_">>)
    IN IF copy = "root"
       THEN IF a.save /\ a.all_states
            THEN <<"C", "u", "s", "t", "o", "m", "_", "d", "a", "t", "a", "s", "e", "t", "_", "f", "o", "l", "d", "e", "r", "/", "c", "o", "m", "b", "i", "n", "e", "d", "_">> \o job_title_safe \o <<"_", "d", "a", "t", "a", "s", "e", "t", ".", "c", "s", "v">>
            ELSE None
       ELSE IF a.save
            THEN dataset_label(a.all_states, a.state) \o <<"_">> \o job_title_safe
                     \o <<"_", "d", "a", "t", "a", "s", "e", "t", "_">> \o today \o <<".", "c", "s", "v">>
            ELSE None

\* the end of the call: the ValueError of parse_salary, or the dataframe with
\* the parsed columns, saved or not
parsed_and_saved(a, pattern, files, copy, today, steps, combined_df, parsed) ==
    IF \E i \in 1..Len(parsed) : parsed[i].kind = "raise"
    THEN Did("raise", NotAFloat, pattern, files, <<>>, None,
             steps \o <<"glob", "read_csv", "parse_salary">>)
    ELSE Did("return", None, pattern, files,
             [i \in 1..Len(combined_df) |->
                 [job_title |-> combined_df[i].job_title,
                  salary |-> combined_df[i].salary,
                  link |-> combined_df[i].link,
                  annualized_avg |-> parsed[i].value.annualized_avg,
                  period |-> parsed[i].value.period]],
             save_name(a, copy, today),
             steps \o <<"glob", "read_csv", "parse_salary", "save">>)

\* combined_df["salary"].apply(self.parse_salary) of the copy called
apply_copy_parse_salary(copy, combined_df) ==
    [i \in 1..Len(combined_df) |-> Call(copy, combined_df[i].salary)]

\* the call after pd.concat
combined(a, pattern, files, copy, today, steps, combined_df) ==
    parsed_and_saved(a, pattern, files, copy, today, steps, combined_df,
                     apply_copy_parse_salary(copy, combined_df))

\* from the glob to the return, the same in both copies but for the copy of
\* parse_salary and the file saved; files is the list that glob returned
load_and_save(a, dir, pattern, files, copy, today, steps) ==
    IF files = <<>>
    THEN Did("return", None, pattern, <<>>, <<>>, None, steps \o <<"glob">>)
    ELSE combined(a, pattern, files, copy, today, steps, read_files(dir, files))

\* combined_df.to_csv: the columns of the rows that the folder keeps
to_csv(rows) ==
    [i \in 1..Len(rows) |->
        Listing(rows[i].job_title,
                IF rows[i].salary = NaN THEN None ELSE rows[i].salary,
                IF rows[i].link = NaN THEN None ELSE rows[i].link)]


\* the arguments of a call
Args(job_title, state, all_states, save, year, month, day, date) ==
    [job_title |-> job_title, state |-> state, all_states |-> all_states, save |-> save,
     year |-> year, month |-> month, day |-> day, date |-> date]

Calls ==
    { [copy |-> copy, args |-> Args(<<"A", "n", "a", "l", "y", "s", "t">>, state, all_states, save, year, month, day, date)] :
        copy \in {"root", "pkg"},
        state \in {None, Str(<<"T", "X">>), Str(<<"N", "e", "w", " ", "Y", "o", "r", "k">>)},
        all_states \in BOOLEAN, save \in BOOLEAN,
        year \in {None, PyInt(2024)}, month \in {None, PyInt(1)}, day \in {None, PyInt(5)},
        date \in {None, Datetime(2024, 1, 6)} }

\* the data folder after searches with save=True on four days, one of them
\* without results
Searched ==
    (JobsFileName(<<"T", "X">>, <<"A", "n", "a", "l", "y", "s", "t">>, <<"2", "0", "2", "4", "-", "0", "1", "-", "0", "5">>) :>
        <<ListingOf("Analyst II"), ListingOf("Analyst III")>>)
    @@ (JobsFileName(<<"T", "X">>, <<"A", "n", "a", "l", "y", "s", "t">>, <<"2", "0", "2", "4", "-", "0", "1", "-", "0", "6">>) :>
        <<ListingOf("Analyst I"), ListingOf("Analyst IV")>>)
    @@ (JobsFileName(<<"T", "X">>, <<"A", "n", "a", "l", "y", "s", "t">>, <<"2", "0", "2", "4", "-", "0", "2", "-", "0", "5">>) :> <<ListingOf("Analyst IV")>>)
    @@ (JobsFileName(<<"N", "e", "w", "_", "Y", "o", "r", "k">>, <<"A", "n", "a", "l", "y", "s", "t">>, <<"2", "0", "2", "4", "-", "0", "1", "-", "0", "5">>) :> <<ListingOf("Analyst III")>>)
    @@ (JobsFileName(<<"N", "e", "w", "_", "Y", "o", "r", "k">>, <<"A", "n", "a", "l", "y", "s", "t">>, <<"2", "0", "2", "4", "-", "0", "1", "-", "0", "6">>) :> <<>>)

\* the data folder with a listing whose salary parse_salary cannot convert
SearchedUnparsed ==
    (JobsFileName(<<"T", "X">>, <<"A", "n", "a", "l", "y", "s", "t">>, <<"2", "0", "2", "4", "-", "0", "1", "-", "0", "5">>) :>
        <<ListingOf("Analyst III"), ListingOf("Analyst V")>>)

\* three of the fifty names of the list states
states == <<<<"N", "e", "w", " ", "Y", "o", "r", "k">>, <<"T", "e", "x", "a", "s">>, <<"U", "t", "a", "h">>>>

\* the name of the file of one state: src/JobSearch.py puts the state into
\* the name as it is, src/jobsearch/JobSearch.py with _ for its spaces
state_file(copy, state, safe_title, today) ==
    JobsFileName(IF copy = "root" THEN state ELSE replace(state, <<" ">>, <<"_">>), safe_title, today)

\* the name of the file of combined_jobs
combined_file(copy, safe_title, today) ==
    JobsFileName(IF copy = "root" THEN <<"A", "L", "L", "_", "S", "T", "A", "T", "E">> ELSE <<"A", "L", "L", "_", "S", "T", "A", "T", "E", "S">>, safe_title, today)

RECURSIVE concat(_)
\* pd.concat(all_jobs, ignore_index=True) of the dataframes that are not
\* empty, and pd.DataFrame() without one
concat(state_dfs) ==
    IF state_dfs = <<>> THEN <<>>
    ELSE Head(state_dfs) \o concat(Tail(state_dfs))

\* the files that search_all_states(job_title, save=True) writes, state_dfs
\* being what search returned for each state: one file for every state with
\* listings, and the file of combined_jobs; the column state that the rows
\* get is left out
search_all_states(copy, job_title, today, state_dfs) ==
    LET safe_title == replace(job_title, <<" ">>, <<"_">>)
        found == {i \in 1..Len(states) : state_dfs[i] # <<>>}
        names == {state_file(copy, states[i], safe_title, today) : i \in found}
    IN [name \in names \cup {combined_file(copy, safe_title, today)} |->
           IF name \in names
           THEN state_dfs[CHOOSE i \in found : state_file(copy, states[i], safe_title, today) = name]
           ELSE concat(state_dfs)]

\* what search returned for New York, Texas and Utah
StateListings ==
    << <<ListingOf("Analyst III")>>, <<ListingOf("Analyst I"), ListingOf("Analyst IV")>>, <<>> >>

\* the data folder after search_all_states("Analyst", save=True)
SearchedAllStates(copy) ==
    search_all_states(copy, <<"A", "n", "a", "l", "y", "s", "t">>, <<"2", "0", "2", "4", "-", "0", "1", "-", "0", "5">>, StateListings)

\* the data folder after search("Analyst", "TX", save=True) and
\* search("Data Analyst", "TX", save=True)
SearchedTitles ==
    (JobsFileName(<<"T", "X">>, replace(<<"A", "n", "a", "l", "y", "s", "t">>, <<" ">>, <<"_">>), <<"2", "0", "2", "4", "-", "0", "1", "-", "0", "5">>) :> <<ListingOf("Analyst I")>>)
    @@ (JobsFileName(<<"T", "X">>, replace(<<"D", "a", "t", "a", " ", "A", "n", "a", "l", "y", "s", "t">>, <<" ">>, <<"_">>), <<"2", "0", "2", "4", "-", "0", "1", "-", "0", "5">>) :> <<ListingOf("Analyst II")>>)

Folders ==
    { <<>>, Searched, SearchedUnparsed, SearchedAllStates("root"), SearchedAllStates("pkg"),
      SearchedTitles }

InitDataset ==
    /\ SalaryIdle
    /\ RetryIdle
    /\ SearchIdle
    /\ folder \in Folders
    /\ jobs = <<>>
    /\ files_imported = {}
    /\ db_pc = "idle"
    /\ csv_files = <<>>
    /\ run = NoRun
    /\ call \in Calls
    /\ ds_pc = "call"
    /\ outcome = NoResult

\* the end of the call: what it did, and the file written into the folder
Finish(did) ==
    /\ outcome' = did
    /\ folder' = IF did.saved = None THEN folder
                  ELSE (did.saved :> to_csv(did.rows)) @@ folder

\* the call from the glob on: the files in the order glob lists them and
\* today's date
GlobLoadSave(g) ==
    \E files \in Orders(glob(folder, g.pattern)), today \in Todays :
        Finish(load_and_save(call.args, folder, g.pattern, files, call.copy, today, g.steps))

\* Clean().create_dataset(...) of src/JobSearch.py
CreateDataset ==
    /\ ds_pc = "call"
    /\ call.copy = "root"
    /\ LET g == create_dataset(call.args)
       IN IF g.kind = "raise"
          THEN outcome' = g /\ UNCHANGED folder
          ELSE GlobLoadSave(g)
    /\ ds_pc' = "done"
    /\ UNCHANGED <<call, jobs, files_imported, db_pc, csv_files, run, salaryVars, retryVars, searchVars>>

\* Clean().create_dataset(...) of src/jobsearch/JobSearch.py
PkgCreateDataset ==
    /\ ds_pc = "call"
    /\ call.copy = "pkg"
    /\ LET g == pkg_create_dataset(call.args)
       IN IF g.kind = "raise"
          THEN outcome' = g /\ UNCHANGED folder
          ELSE GlobLoadSave(g)
    /\ ds_pc' = "done"
    /\ UNCHANGED <<call, jobs, files_imported, db_pc, csv_files, run, salaryVars, retryVars, searchVars>>

NextDataset == CreateDataset \/ PkgCreateDataset

SpecDataset == InitDataset /\ [][NextDataset]_vars


-----------------------------------------------------------------------------
(* what create_dataset accepts *)

DatasetDone == ds_pc = "done"

\* exactly one of state and all_states=True is given
ExactlyOne == (call.args.state # None) # call.args.all_states

\* nothing of the folder was listed, read or written
NoFileTouched ==
    /\ outcome.files = <<>>
    /\ outcome.saved = None
    /\ folder \in Folders
    /\ \A i \in 1..Len(outcome.steps) : outcome.steps[i] \notin {"glob", "read_csv", "save"}

\* C18: a call with state and all_states=True together, or with neither, raises
\* the ValueError about state and all_states before it lists, reads or writes
\* a file; a call with exactly one of them does not raise it.
C18_StateXorAllStates ==
    DatasetDone =>
        IF ExactlyOne THEN outcome.exc # StateOrAllStates
        ELSE /\ outcome.kind = "raise"
             /\ outcome.exc = StateOrAllStates
             /\ NoFileTouched

C18_Witness ==
    /\ DatasetDone
    /\ call.args.state = Str(<<"T", "X">>)
    /\ call.args.all_states
    /\ call.args.save
    /\ folder = Searched
    /\ outcome.kind = "raise"
    /\ outcome.exc = StateOrAllStates

\* a month or a day is asked for and no year, no date being given
MonthOrDayWithoutYear ==
    /\ call.args.date = None
    /\ call.args.year = None
    /\ call.args.month # None \/ call.args.day # None

\* C19: a call with a month or a day and no year raises ValueError, reads no
\* file and saves nothing; the year, month and day of a date argument count
\* in place of the arguments year, month and day, so a call with a date never
\* raises for a missing year.
C19_YearRequired ==
    DatasetDone =>
        /\ MonthOrDayWithoutYear =>
              /\ outcome.kind = "raise"
              /\ outcome.exc \in {YearRequired, StateOrAllStates}
              /\ ExactlyOne => outcome.exc = YearRequired
              /\ NoFileTouched
        /\ call.args.date # None => outcome.exc # YearRequired

C19_Witness ==
    /\ DatasetDone
    /\ ExactlyOne
    /\ MonthOrDayWithoutYear
    /\ call.args.month = None
    /\ call.args.save
    /\ folder = Searched
    /\ outcome.exc = YearRequired

\* the day the call asks for, as file names end in it
DayAsked ==
    IF call.args.date # None THEN <<"-">> \o pad2(call.args.date.day) \o <<".", "c", "s", "v">>
    ELSE <<"-">> \o pad2(call.args.day.v) \o <<".", "c", "s", "v">>

\* C20: a call with a day is rejected or loads files of that day only.
C20_DayNeedsMonth ==
    (DatasetDone /\ (call.args.date # None \/ call.args.day # None)) =>
        \A i \in 1..Len(outcome.files) : endswith(outcome.files[i], DayAsked)


-----------------------------------------------------------------------------
(* the end of _get_page_with_retry *)

\* the call returned after the loop
Exhausted == retry_pc = "returned" /\ attempt > max_retries

\* the requests that were answered by a decoded response
Decoded == {i \in 1..Len(responses) : responses[i].kind = "json"}

\* the response decoded last, {} when none was decoded
LastDecoded ==
    IF Decoded = {} THEN EmptyDict
    ELSE responses[CHOOSE i \in Decoded : \A j \in Decoded : j <= i].json

\* as long as the call runs or returned, no exception left it
NoRequestException == retry_pc \in {"loop", "returned"}

\* C21: the call makes at most max_retries requests, whatever they are
\* answered with, and returns; after the last attempt it returns the
\* response decoded last, which an earlier attempt may have brought, or {}
\* when no attempt decoded one; no request exception leaves the call.
C21_Terminates ==
    /\ [](/\ Len(responses) <= max_retries
          /\ retry_pc = "loop" => attempt = Len(responses) + 1
          /\ NoRequestException
          /\ Exhausted => /\ Len(responses) = max_retries
                          /\ returned = LastDecoded)
    /\ <>(retry_pc = "returned")

C21_Witness ==
    /\ Exhausted
    /\ Len(responses) = max_retries
    /\ responses[3].json = Dict(Absent, Str(<<"P", "r", "o", "c", "e", "s", "s", "i", "n", "g">>), Absent)
    /\ responses[4].kind = "RequestException"
    /\ responses[5].kind = "RequestException"
    /\ returned = Dict(Absent, Str(<<"P", "r", "o", "c", "e", "s", "s", "i", "n", "g">>), Absent)


-----------------------------------------------------------------------------
(* import_csv_folder_to_db, run after run *)

\* the loop is at a file whose name is in files_imported
AtImportedFile ==
    /\ db_pc = "loop"
    /\ csv_files # <<>>
    /\ Head(csv_files) \in files_imported

\* the import ran twice in a row, the folder and the tables untouched in
\* between, and the second run was given the files in the order of the first
RanTwice ==
    /\ run # NoRun
    /\ run.ended
    /\ run.prev # NoRun
    /\ run.order = run.prev.order

\* C24: a file whose name is in files_imported is passed over, whatever it
\* holds now: the tables stay as they are and the loop goes on; rows are
\* inserted only together with a new name; and a second run over the
\* unchanged folder leaves both tables as the first run left them.
C24_ImportedOnce ==
    /\ [][/\ AtImportedFile =>
                /\ jobs' = jobs
                /\ files_imported' = files_imported
                /\ db_pc' = "loop"
                /\ csv_files' = Tail(csv_files)
          /\ files_imported \subseteq files_imported'
          /\ (db_pc = "loop" /\ jobs' # jobs) =>
                /\ Head(csv_files) \notin files_imported
                /\ files_imported' = files_imported \cup {Head(csv_files)}]_vars
    /\ [](RanTwice => /\ jobs = run.prev.jobs
                      /\ files_imported = run.prev.files)

C24_Witness ==
    /\ RanTwice
    /\ run.prev.raised = "none"
    /\ Len(run.order) = 2
    /\ Cardinality(files_imported) = 2
    /\ Len(jobs) = 3
    /\ \E i \in 1..Len(jobs) : jobs[i].link = NULL

\* the file name holds no row, or a row whose salary parse_salary rejects
Unreadable(name) ==
    \/ folder[name] = <<>>
    \/ \E i \in 1..Len(folder[name]) : folder[name][i] = ListingOf("Analyst V")

\* the listing is in the table, or was ignored for a row of its link
InsertedOrIgnored(listing, table) ==
    \E i \in 1..Len(table) :
        \/ table[i].job_title = listing.job_title
        \/ listing.link # None /\ table[i].link = listing.link

\* the loop is at a file that is not imported yet
AtNewFile ==
    /\ db_pc = "loop"
    /\ csv_files # <<>>
    /\ Head(csv_files) \notin files_imported

\* C25: a name enters files_imported only in the step that inserted the rows
\* of its file, each row being stored or ignored for a row of its link; rows
\* once stored stay; the step at a file that cannot be read or parsed ends
\* the run with both tables as they were, and after a run that raised some
\* file of the folder is unmarked, which the next run visits.
C25_MarkedAfterInsert ==
    /\ [][/\ \A name \in files_imported' \ files_imported :
                /\ AtNewFile
                /\ name = Head(csv_files)
                /\ ~Unreadable(name)
                /\ \A i \in 1..Len(folder[name]) : InsertedOrIgnored(folder[name][i], jobs')
          /\ Len(jobs') >= Len(jobs)
          /\ SubSeq(jobs', 1, Len(jobs)) = jobs
          /\ (AtNewFile /\ Unreadable(Head(csv_files))) =>
                /\ files_imported' = files_imported
                /\ jobs' = jobs
                /\ db_pc' = "idle"
                /\ run'.raised # "none"]_vars
    /\ []((run # NoRun /\ run.ended /\ run.raised # "none") =>
              \E name \in DOMAIN folder : Unreadable(name) /\ name \notin files_imported)

C25_Witness ==
    /\ RanTwice
    /\ run.prev.raised = "ValueError"
    /\ run.raised = "ValueError"
    /\ Cardinality(files_imported) = 1
    /\ Len(jobs) = 2

-----------------------------------------------------------------------------
(* search *)

\* the pages one call of search may ask for
MaxPages == 3

\* one entry of jobs_results: the keys that search reads for the columns
\* job_title, salary and link; listing is the row the entry stands for
Job(title, detected_extensions, share_link, listing) ==
    [title |-> title, detected_extensions |-> detected_extensions,
     share_link |-> share_link, listing |-> listing]

Extensions(salary) == [salary |-> salary]

\* a list of a decoded response
List(items) == [tag |-> "list", items |-> items]

Pagination(token) == [next_page_token |-> token]

\* what _get_page_with_retry returned: the keys error, status and page in
\* json, and the keys jobs_results and serpapi_pagination; outcome tells a
\* page from a response returned after the last retry and from an error
Results(json, page_jobs, pagination, ending) ==
    [json |-> json, jobs_results |-> page_jobs,
     serpapi_pagination |-> pagination, outcome |-> ending]

JobOf(title) ==
    CASE title = "Analyst I" ->
            Job(title, Extensions(Str(<<"9", "0", "K">>)), Str(<<"g", ".", "c", "o", "/", "1">>), ListingOf(title))
      [] title = "Analyst III" ->
            Job(title, Absent, Str(<<"g", ".", "c", "o", "/", "2">>), ListingOf(title))
      [] title = "Analyst IV" ->
            Job(title, Extensions(Str(<<"9", "0", "K">>)), Absent, ListingOf(title))
      [] title = "Analyst V" ->
            Job(title, Extensions(Str(<<"C", "o", "m", "p", "e", "t", "i", "t", "i", "v", "e", " ", "p", "a", "y", ".">>)), Str(<<"g", ".", "c", "o", "/", "3">>), ListingOf(title))

\* the jobs_results of a page; a listing may come back on a later page
PageJobs ==
    { <<JobOf("Analyst I"), JobOf("Analyst III")>>,
      <<JobOf("Analyst IV")>>,
      <<JobOf("Analyst V"), JobOf("Analyst I")>> }

Paginations ==
    { Absent, [other_pages |-> Absent, next_page_token |-> Absent],
      Pagination(Str(<<"t", "1">>)), Pagination(Str(<<"t", "2">>)) }

Success == Dict(Absent, Str(<<"S", "u", "c", "c", "e", "s", "s">>), 1)

\* the responses the retries end with: the last of max_retries transient
\* responses, or {} when every request failed
ExhaustedResults ==
    { Results(last_response(d), Absent, Absent, "exhausted") :
        d \in {Unbound} \cup { r.json : r \in { x \in Responses : x.transient } } }

PageResults ==
    { Results(Success, List(page_jobs), pagination, "page") :
        page_jobs \in PageJobs, pagination \in Paginations }
    \cup { Results(Success, Absent, Pagination(Str(<<"t", "1">>)), "page"),
           Results(Success, List(<<>>), Absent, "page"),
           Results(Dict(Str(<<"I", "n", "v", "a", "l", "i", "d", " ", "A", "P", "I", " ", "k", "e", "y", ".">>), Absent, Absent), Absent, Absent, "error") }
    \cup ExhaustedResults

\* the params of a request: q, and next_page_token when it is in the dict
Params(q, token) == [q |-> q, next_page_token |-> token]

\* if next_page_token: of a str or None
is_set(token) == token # None /\ token # Str(<<>>)

\* the params that never carry a page token
request_params_first_page(q, token) == Params(q, Absent)

\* params, with params["next_page_token"] = next_page_token if it is set
request_params(q, token) ==
    Params(q, IF is_set(token) THEN token ELSE Absent)

\* jobs_results that puts a row for the failure where the key is missing
jobs_results_or_error(results) ==
    IF results.jobs_results = Absent
    THEN <<Job("error", Absent, Absent, Listing("error", None, None))>>
    ELSE results.jobs_results.items

\* results.get("jobs_results", [])
jobs_results(results) ==
    IF results.jobs_results = Absent THEN <<>> ELSE results.jobs_results.items

\* d.get(key) of a key that may be missing
get(value) == IF value = Absent THEN None ELSE value

\* the dict appended to job_list for one job
entry(job) ==
    Listing(job.title,
            IF job.detected_extensions = Absent THEN None
            ELSE get(job.detected_extensions.salary),
            get(job.share_link))

RECURSIVE entries(_)
\* the dicts the for loop appends for the jobs of one page
entries(page_jobs) ==
    IF page_jobs = <<>> THEN <<>>
    ELSE <<entry(Head(page_jobs))>> \o entries(Tail(page_jobs))

\* results.get("serpapi_pagination", {}).get("next_page_token")
page_token(results) ==
    IF results.serpapi_pagination = Absent THEN None
    ELSE get(results.serpapi_pagination.next_page_token)

\* q = f"{job_title} {location}"
query(a) == a.job_title \o <<" ">> \o a.location

\* the file that search saves to
search_file(a) ==
    JobsFileName(replace(a.location, <<" ">>, <<"_">>), replace(a.job_title, <<" ">>, <<"_">>), a.today)

SearchCalls ==
    [job_title : {<<"D", "a", "t", "a", " ", "A", "n", "a", "l", "y", "s", "t">>}, location : {<<"N", "e", "w", " ", "Y", "o", "r", "k">>}, save : BOOLEAN,
     today : {<<"2", "0", "2", "4", "-", "0", "1", "-", "0", "5">>}]

InitSearch ==
    /\ SalaryIdle
    /\ DbIdle
    /\ RetryIdle
    /\ DatasetIdle
    /\ search_args \in SearchCalls
    /\ job_list = <<>>
    /\ next_page_token = None
    /\ search_pc = "loop"
    /\ requests = <<>>
    /\ search_returned = Unbound

\* one round of the while loop, results being what the request returned
SearchRound(results, page_jobs) ==
    /\ requests' = Append(requests, [params |-> request_params(query(search_args), next_page_token),
                                     results |-> results])
    /\ IF page_jobs = <<>>
       THEN /\ search_pc' = "after"
            /\ UNCHANGED <<job_list, next_page_token>>
       ELSE /\ job_list' = job_list \o entries(page_jobs)
            /\ next_page_token' = page_token(results)
            /\ search_pc' = IF is_set(page_token(results)) THEN "loop" ELSE "after"

GetPage ==
    /\ search_pc = "loop"
    /\ Len(requests) < MaxPages
    /\ \E results \in PageResults : SearchRound(results, jobs_results(results))
    /\ UNCHANGED <<search_args, search_returned, salaryVars, dbVars, retryVars, datasetVars>>

\* after the loop: job_df = pd.DataFrame(job_list), saved if save is set,
\* and returned
ReturnJobs ==
    /\ search_pc = "after"
    /\ folder' = IF search_args.save
                 THEN (search_file(search_args) :> job_list) @@ folder
                 ELSE folder
    /\ search_returned' = job_list
    /\ search_pc' = "done"
    /\ UNCHANGED <<search_args, job_list, next_page_token, requests>>
    /\ UNCHANGED <<jobs, files_imported, db_pc, csv_files, run, salaryVars, retryVars, datasetVars>>

NextSearch == GetPage \/ ReturnJobs

SpecSearch == InitSearch /\ [][NextSearch]_vars

\* the page of request i has jobs
HasJobs(i) ==
    /\ requests[i].results.jobs_results # Absent
    /\ requests[i].results.jobs_results.items # <<>>

\* the next_page_token of the page of request i, Absent without one
TokenOf(i) ==
    IF requests[i].results.serpapi_pagination = Absent THEN Absent
    ELSE requests[i].results.serpapi_pagination.next_page_token

RECURSIVE ListingsOf(_)
ListingsOf(page_jobs) ==
    IF page_jobs = <<>> THEN <<>>
    ELSE <<Head(page_jobs).listing>> \o ListingsOf(Tail(page_jobs))

RECURSIVE Fetched(_)
\* the listings of the pages of the requests 1..n, in page order
Fetched(n) ==
    IF n = 0 THEN <<>>
    ELSE Fetched(n - 1) \o (IF HasJobs(n) THEN ListingsOf(requests[n].results.jobs_results.items) ELSE <<>>)

SearchLeftLoop == search_pc \in {"after", "done"}

\* C22: the first request carries no page token, each later request carries
\* the next_page_token of the page before it, job_list is the jobs of the
\* fetched pages once each in page order, every page before the last has
\* jobs and a token, and the loop is left exactly after a page without jobs
\* or without a token, whose jobs are kept.
C22_PaginatesInOrder ==
    /\ \A i \in 1..Len(requests) :
          /\ requests[i].params.next_page_token = (IF i = 1 THEN Absent ELSE TokenOf(i - 1))
          /\ i < Len(requests) => HasJobs(i) /\ TokenOf(i) # Absent
    /\ job_list = Fetched(Len(requests))
    /\ SearchLeftLoop <=>
          /\ requests # <<>>
          /\ ~HasJobs(Len(requests)) \/ TokenOf(Len(requests)) = Absent
    /\ search_pc = "done" => search_returned = Fetched(Len(requests))

C22_Witness ==
    /\ search_pc = "done"
    /\ Len(requests) = 3
    /\ requests[2].params.next_page_token = Str(<<"t", "1">>)
    /\ requests[3].params.next_page_token = Str(<<"t", "2">>)
    /\ HasJobs(3)
    /\ TokenOf(3) = Absent
    /\ search_returned = <<ListingOf("Analyst IV"), ListingOf("Analyst I"), ListingOf("Analyst III"),
                           ListingOf("Analyst V"), ListingOf("Analyst I")>>

\* the request i was answered after the last retry
RetriesExhausted(i) == requests[i].results.outcome = "exhausted"

\* C23: a page returned after the last retry is the last page asked for: the
\* loop is left without an exception, job_list is the listings of the pages
\* before it, and that is what is returned and, with save, written.
C23_ExhaustedStopsQuietly ==
    \A i \in 1..Len(requests) :
        RetriesExhausted(i) =>
            /\ i = Len(requests)
            /\ SearchLeftLoop
            /\ job_list = Fetched(i - 1)
            /\ search_pc = "done" =>
                  /\ search_returned = Fetched(i - 1)
                  /\ IF search_args.save
                     THEN folder = (search_file(search_args) :> Fetched(i - 1))
                     ELSE folder = <<>>

C23_Witness ==
    /\ search_pc = "done"
    /\ Len(requests) = 3
    /\ RetriesExhausted(3)
    /\ requests[3].results.json = Dict(Absent, Str(<<"P", "r", "o", "c", "e", "s", "s", "i", "n", "g">>), Absent)
    /\ search_args.save
    /\ Len(folder[search_file(search_args)]) = 3


-----------------------------------------------------------------------------
(* the files create_dataset loads *)

\* the folder holds the files of dir as dir holds them
FolderHolds(dir) ==
    \A name \in DOMAIN dir : name \in DOMAIN folder /\ folder[name] = dir[name]

\* the call read files and returned
Loaded == DatasetDone /\ outcome.kind = "return" /\ outcome.files # <<>>

\* the rows of the dataset that stand for the listing
RowsOf(listing) ==
    {i \in 1..Len(outcome.rows) : outcome.rows[i].job_title = listing.job_title}

\* C26: create_dataset with all_states=True over the folder that
\* search_all_states of the same copy left holds each listing fetched once.
C26_EachListingOnce ==
    (Loaded /\ call.args.all_states /\ FolderHolds(SearchedAllStates(call.copy))) =>
        \A i \in 1..Len(StateListings) : \A k \in 1..Len(StateListings[i]) :
            Cardinality(RowsOf(StateListings[i][k])) = 1

\* the names search and search_all_states give files of the title Analyst
SavedForAnalyst(location) ==
    { JobsFileName(location, <<"A", "n", "a", "l", "y", "s", "t">>, today) :
        today \in {<<"2", "0", "2", "4", "-", "0", "1", "-", "0", "5">>, <<"2", "0", "2", "4", "-", "0", "1", "-", "0", "6">>, <<"2", "0", "2", "4", "-", "0", "2", "-", "0", "5">>} }

\* what stands in a file name for the state, or for all states
Locations ==
    {<<"T", "X">>, <<"N", "e", "w", "_", "Y", "o", "r", "k">>, <<"N", "e", "w", " ", "Y", "o", "r", "k">>, <<"T", "e", "x", "a", "s">>, <<"U", "t", "a", "h">>, <<"A", "L", "L", "_", "S", "T", "A", "T", "E">>, <<"A", "L", "L", "_", "S", "T", "A", "T", "E", "S">>}

\* C27: every file loaded was saved for the title asked for and, when a
\* state is given, for that state.
C27_OnlyRequestedFiles ==
    DatasetDone =>
        \A i \in 1..Len(outcome.files) :
            IF call.args.state # None
            THEN outcome.files[i] \in SavedForAnalyst(replace(call.args.state.chars, <<" ">>, <<"_">>))
            ELSE \E location \in Locations : outcome.files[i] \in SavedForAnalyst(location)


-----------------------------------------------------------------------------
(* the two copies of parse_salary *)

\* the copy that was not called
OtherCopy == IF impl = "root" THEN "pkg" ELSE "root"

\* the argument is a text that holds day or daily in whatever case
HasDayCue ==
    /\ arg.tag = "str"
    /\ \/ Contains(lower(arg.chars), <<"d", "a", "y">>)
       \/ Contains(lower(arg.chars), <<"d", "a", "i", "l", "y">>)

====
